---- MODULE Spec2Model ----
(***************************************************************************)
(* Model of the field-reconciliation and consolidated-session engine of    *)
(* the DTT pricing tool accelerator.                                       *)
(*                                                                         *)
(* Text is modelled as a sequence of one-character strings, so that the    *)
(* label normalizer and the similarity ratio are computed character by     *)
(* character, as the Python code computes them.                            *)
(***************************************************************************)
EXTENDS Integers, Sequences, FiniteSets, TLC

(***************************************************************************)
(* Characters and elementary string functions (Python str semantics).      *)
(***************************************************************************)
LowerLetters ==
    {"a","b","c","d","e","f","g","h","i","j","k","l","m",
     "n","o","p","q","r","s","t","u","v","w","x","y","z"}

UpperSeq ==
    <<"A","B","C","D","E","F","G","H","I","J","K","L","M",
      "N","O","P","Q","R","S","T","U","V","W","X","Y","Z">>

LowerSeq ==
    <<"a","b","c","d","e","f","g","h","i","j","k","l","m",
      "n","o","p","q","r","s","t","u","v","w","x","y","z">>

UpperLetters == { UpperSeq[i] : i \in 1..Len(UpperSeq) }

Digits == {"0","1","2","3","4","5","6","7","8","9"}

Whitespace == {" "}

\* the character class [:\.\-\(\)\[\]] of the two punctuation regexes
PunctChars == {":", ".", "-", "(", ")", "[", "]"}

\* the character class [\.\)\-\s] that may follow a numeric prefix
NumberTailChars == {".", ")", "-"} \cup Whitespace

\* the first letters of the prefixes 'a.' .. 'j.'
PrefixLetters == {"a","b","c","d","e","f","g","h","i","j"}

IsAlpha(c) == c \in LowerLetters \cup UpperLetters

LowerChar(c) ==
    IF c \in UpperLetters
    THEN LowerSeq[CHOOSE i \in 1..Len(UpperSeq) : UpperSeq[i] = c]
    ELSE c

\* str.lower()
Lower(s) == [i \in 1..Len(s) |-> LowerChar(s[i])]

\* s[n:] for 0 <= n
DropFirst(s, n) == IF n >= Len(s) THEN <<>> ELSE SubSeq(s, n + 1, Len(s))

\* s[:n]
TakeFirst(s, n) == IF n >= Len(s) THEN s ELSE SubSeq(s, 1, n)

\* length of the longest prefix of s whose characters are all in cls
LeadingRun(s, cls) ==
    IF \A i \in 1..Len(s) : s[i] \in cls
    THEN Len(s)
    ELSE (CHOOSE i \in 1..Len(s) : s[i] \notin cls /\ \A j \in 1..(i-1) : s[j] \in cls) - 1

\* length of the longest suffix of s whose characters are all in cls
TrailingRun(s, cls) ==
    IF \A i \in 1..Len(s) : s[i] \in cls
    THEN Len(s)
    ELSE Len(s) - (CHOOSE i \in 1..Len(s) :
                      s[i] \notin cls /\ \A j \in (i+1)..Len(s) : s[j] \in cls)

StripLeading(s, cls) == DropFirst(s, LeadingRun(s, cls))

StripTrailing(s, cls) == TakeFirst(s, Len(s) - TrailingRun(s, cls))

\* str.strip()
Strip(s) == StripTrailing(StripLeading(s, Whitespace), Whitespace)

\* str.replace(c, '')
RECURSIVE RemoveChar(_, _)
RemoveChar(s, c) ==
    IF s = <<>> THEN <<>>
    ELSE IF Head(s) = c THEN RemoveChar(Tail(s), c)
    ELSE <<Head(s)>> \o RemoveChar(Tail(s), c)

\* re.sub(r'\s+', ' ', s)
RECURSIVE CollapseWhitespace(_)
CollapseWhitespace(s) ==
    IF s = <<>> THEN <<>>
    ELSE IF Head(s) \in Whitespace
         THEN <<" ">> \o CollapseWhitespace(StripLeading(s, Whitespace))
         ELSE <<Head(s)>> \o CollapseWhitespace(Tail(s))

\* str.startswith(p)
StartsWith(s, p) == Len(s) >= Len(p) /\ SubSeq(s, 1, Len(p)) = p

\* str.isdigit()
IsDigitString(s) == s # <<>> /\ \A i \in 1..Len(s) : s[i] \in Digits

(***************************************************************************)
(* Label Normalizer                                                        *)
(***************************************************************************)
\* re.sub(r'^\d+[\.\)\-\s]*', '', s)
StripNumberPrefix(s) ==
    IF s # <<>> /\ Head(s) \in Digits
    THEN StripLeading(StripLeading(s, Digits), NumberTailChars)
    ELSE s

\* the loop over prefixes 'a.' .. 'j.': the first that matches is removed
StripLetterPrefix(s) ==
    IF Len(s) >= 2 /\ s[1] \in PrefixLetters /\ s[2] = "."
    THEN Strip(DropFirst(s, 2))
    ELSE s

normalize_field_name(field_name) ==
    IF field_name = <<>> THEN <<>>
    ELSE LET lowered    == Strip(Lower(field_name))
             noStars    == RemoveChar(lowered, "*")
             noTrailing == StripTrailing(noStars, PunctChars)
             noLeading  == StripLeading(noTrailing, PunctChars)
             noNumber   == StripNumberPrefix(noLeading)
             noPrefix   == StripLetterPrefix(noNumber)
         IN  Strip(CollapseWhitespace(noPrefix))

(***************************************************************************)
(* Similarity ratio: difflib.SequenceMatcher(None, a, b).ratio()           *)
(***************************************************************************)
Min(x, y) == IF x <= y THEN x ELSE y

\* All blocks <<i, j, k>> with a[i..i+k-1] = b[j..j+k-1], k >= 1, inside the
\* windows a[alo..ahi] and b[blo..bhi] (1-based, inclusive).
CommonBlocks(a, b, alo, ahi, blo, bhi) ==
    { blk \in (alo..ahi) \X (blo..bhi) \X (1..Min(ahi - alo + 1, bhi - blo + 1)) :
        /\ blk[1] + blk[3] - 1 <= ahi
        /\ blk[2] + blk[3] - 1 <= bhi
        /\ \A d \in 0..(blk[3] - 1) : a[blk[1] + d] = b[blk[2] + d] }

\* SequenceMatcher.find_longest_match: the longest block; of those the one
\* starting earliest in a; of those the one starting earliest in b.
find_longest_match(a, b, alo, ahi, blo, bhi) ==
    LET blocks == CommonBlocks(a, b, alo, ahi, blo, bhi)
    IN  CHOOSE m \in blocks :
          \A o \in blocks :
             \/ m[3] > o[3]
             \/ m[3] = o[3] /\ m[1] < o[1]
             \/ m[3] = o[3] /\ m[1] = o[1] /\ m[2] <= o[2]

\* SequenceMatcher.get_matching_blocks: total size of the blocks found by
\* recursing to the left and to the right of the longest match.
RECURSIVE MatchedChars(_, _, _, _, _, _)
MatchedChars(a, b, alo, ahi, blo, bhi) ==
    IF alo > ahi \/ blo > bhi \/ CommonBlocks(a, b, alo, ahi, blo, bhi) = {}
    THEN 0
    ELSE LET m == find_longest_match(a, b, alo, ahi, blo, bhi)
         IN  m[3]
             + MatchedChars(a, b, alo, m[1] - 1, blo, m[2] - 1)
             + MatchedChars(a, b, m[1] + m[3], ahi, m[2] + m[3], bhi)

\* A score is the exact fraction num/den (den > 0) of the float the code
\* computes; ZeroScore is 0.0.
ZeroScore == [num |-> 0, den |-> 1]

\* SequenceMatcher.ratio(): 2.0 * matches / (len(a) + len(b))
SequenceRatio(a, b) ==
    [num |-> 2 * MatchedChars(a, b, 1, Len(a), 1, Len(b)), den |-> Len(a) + Len(b)]

ScoreGE(x, y) == x.num * y.den >= y.num * x.den

ScoreGT(x, y) == x.num * y.den > y.num * x.den

core_string_match(source_field, target_field) ==
    IF source_field = <<>> \/ target_field = <<>> THEN ZeroScore
    ELSE LET source_normalized == normalize_field_name(source_field)
             target_normalized == normalize_field_name(target_field)
         IN  IF source_normalized = <<>> \/ target_normalized = <<>>
             THEN ZeroScore
             ELSE SequenceRatio(source_normalized, target_normalized)

(***************************************************************************)
(* Candidate Scanner                                                       *)
(*                                                                         *)
(* A worksheet is a record [name, cells]; cells maps <<row, column>> to    *)
(* the text of the cell, and a cell that is absent or <<>> is empty.       *)
(***************************************************************************)
PRICING_SETUP_OUTPUT_FIELD_COL_IDX == 5

PRICING_SETUP_OUTPUT_VALUE_COL_IDX == 6

\* max_row of the optimized scan
OptimizedScanRows == 100

\* range(1, 51) and range(1, 21) of the generic scan
GenericScanRows == 50

GenericScanCols == 20

MinFieldNameLen == 3

MaxFieldNameLen == 200

MinAlphaCount == 3

\* worksheet.range(ref).value : None is <<>>
CellValue(cells, row, col) ==
    IF <<row, col>> \in DOMAIN cells THEN cells[<<row, col>>] ELSE <<>>

\* chr(64 + col)
ColumnLetter(col) == UpperSeq[col]

\* f"{col_letter}{row}" kept as the pair <<letter, row>>
CellRef(row, col) == <<ColumnLetter(col), row>>

CellLocation(row, col, content) ==
    [row |-> row, column |-> col, cell_reference |-> CellRef(row, col),
     content |-> content]

_is_potential_field_name(cell_text) ==
    /\ Len(cell_text) >= MinFieldNameLen
    /\ Len(cell_text) <= MaxFieldNameLen
    /\ ~ IsDigitString(RemoveChar(RemoveChar(cell_text, "."), "-"))
    /\ ~ StartsWith(cell_text, <<"=">>)
    /\ ~ StartsWith(cell_text, <<"#">>)
    /\ \E i \in 1..Len(cell_text) : IsAlpha(cell_text[i])
    /\ Cardinality({ i \in 1..Len(cell_text) : IsAlpha(cell_text[i]) }) >= MinAlphaCount

\* the cells visited by "for row in 1..rows: for col in cols", in that order
ScanOrder(rows, cols) ==
    [k \in 1..(rows * Len(cols)) |->
        <<((k - 1) \div Len(cols)) + 1, cols[((k - 1) % Len(cols)) + 1]>>]

\* the visited cells that hold a value ("if cell_value and ..."), each with
\* str(cell_value).strip() as its content
ScannedLocations(cells, order) ==
    LET holding == SelectSeq(order, LAMBDA rc : CellValue(cells, rc[1], rc[2]) # <<>>)
    IN  [k \in DOMAIN holding |->
            CellLocation(holding[k][1], holding[k][2],
                         Strip(CellValue(cells, holding[k][1], holding[k][2])))]

scan_worksheet_for_pricing_setup_fields_xlwings(cells) ==
    LET allowed_columns == <<PRICING_SETUP_OUTPUT_FIELD_COL_IDX,
                             PRICING_SETUP_OUTPUT_VALUE_COL_IDX>>
        order == ScanOrder(OptimizedScanRows, allowed_columns)
    IN  SelectSeq(ScannedLocations(cells, order),
                  LAMBDA loc : _is_potential_field_name(loc.content))

\* the generic scan written inline in find_matching_fields_in_worksheet
GenericScanXlwings(cells) ==
    LET order == ScanOrder(GenericScanRows, [c \in 1..GenericScanCols |-> c])
    IN  SelectSeq(ScannedLocations(cells, order),
                  LAMBDA loc : Len(loc.content) > 3)

(***************************************************************************)
(* Matcher                                                                 *)
(*                                                                         *)
(* An ordered name -> value mapping (a Python dict) is a sequence of       *)
(* <<name, value>> pairs with distinct names, in insertion order.          *)
(***************************************************************************)
NoMatch == <<>>

FieldMatch(source_field, location, confidence, source_value) ==
    [source_field |-> source_field, target_location |-> location,
     confidence |-> confidence, source_value |-> source_value]

\* a comparison that rejects a score equal to the threshold
IsAboveThresholdMatch(confidence, threshold, best_confidence) ==
    /\ ScoreGT(confidence, threshold)
    /\ ScoreGT(confidence, best_confidence)

\* a comparison that lets a later candidate with the same score win
IsBetterOrEqualMatch(confidence, threshold, best_confidence) ==
    ScoreGE(confidence, threshold) /\ ScoreGE(confidence, best_confidence)

\* "if confidence >= threshold and confidence > best_confidence:"
IsBetterMatch(confidence, threshold, best_confidence) ==
    ScoreGE(confidence, threshold) /\ ScoreGT(confidence, best_confidence)

\* the inner loop "for location in potential_locations", from location k on,
\* with the best match so far (NoMatch or <<FieldMatch>>) and its confidence
RECURSIVE BestMatchFrom(_, _, _, _, _, _, _)
BestMatchFrom(source_field, source_value, locations, threshold, k, best_match, best_confidence) ==
    IF k > Len(locations) THEN best_match
    ELSE LET confidence == core_string_match(source_field, locations[k].content)
         IN  IF IsBetterMatch(confidence, threshold, best_confidence)
             THEN BestMatchFrom(source_field, source_value, locations, threshold,
                                k + 1,
                                <<FieldMatch(source_field, locations[k],
                                             confidence, source_value)>>,
                                confidence)
             ELSE BestMatchFrom(source_field, source_value, locations, threshold,
                                k + 1, best_match, best_confidence)

\* a matcher that gives a location to the first field matching it only
MatchAllFieldsExclusive(source_fields, locations, threshold) ==
    LET found == [i \in DOMAIN source_fields |->
                     BestMatchFrom(source_fields[i][1], source_fields[i][2],
                                   locations, threshold, 1, NoMatch, ZeroScore)]
        kept(i) ==
            /\ found[i] # NoMatch
            /\ \A j \in 1..(i - 1) :
                  \/ found[j] = NoMatch
                  \/ found[j][1].target_location # found[i][1].target_location
        indices == SelectSeq([i \in DOMAIN source_fields |-> i], kept)
    IN  [k \in DOMAIN indices |-> found[indices[k]][1]]

\* the outer loop "for source_field, source_value in source_fields.items()"
RECURSIVE MatchAllFields(_, _, _)
MatchAllFields(source_fields, locations, threshold) ==
    IF source_fields = <<>> THEN <<>>
    ELSE BestMatchFrom(Head(source_fields)[1], Head(source_fields)[2],
                       locations, threshold, 1, NoMatch, ZeroScore)
         \o MatchAllFields(Tail(source_fields), locations, threshold)

\* 'pricing setup' in sheet_name.lower()
PricingSetupSheetNames == {"Pricing Setup"}

PotentialLocations(worksheet) ==
    IF worksheet.name \in PricingSetupSheetNames
    THEN scan_worksheet_for_pricing_setup_fields_xlwings(worksheet.cells)
    ELSE GenericScanXlwings(worksheet.cells)

find_matching_fields_in_worksheet(source_fields, worksheet, threshold) ==
    MatchAllFields(source_fields, PotentialLocations(worksheet), threshold)

(***************************************************************************)
(* Ordered mappings (Python dict) and the merge of the two field sources   *)
(***************************************************************************)
Keys(d) == { d[i][1] : i \in DOMAIN d }

\* d[key] = value : replaces in place, or appends a new key at the end
DictSet(d, key, value) ==
    IF key \in Keys(d)
    THEN [i \in DOMAIN d |-> IF d[i][1] = key THEN <<key, value>> ELSE d[i]]
    ELSE Append(d, <<key, value>>)

\* d[key] of a key that is present
DictGet(d, key) == d[CHOOSE i \in DOMAIN d : d[i][1] = key][2]

\* {**base, **update}
RECURSIVE DictUpdate(_, _)
DictUpdate(base, update) ==
    IF update = <<>> THEN base
    ELSE DictUpdate(DictSet(base, Head(update)[1], Head(update)[2]), Tail(update))

\* merged_data = {**constants_data, **cli_data} if cli_data else constants_data
MergeInSession(constants_data, cli_data) ==
    IF cli_data # <<>> THEN DictUpdate(constants_data, cli_data) ELSE constants_data

(***************************************************************************)
(* Population Writer (in-session)                                          *)
(*                                                                         *)
(* What the spreadsheet application does with one write is an input:       *)
(*   "ok"       the cell reads back as the value written;                  *)
(*   "mismatch" the application stores a coerced value that reads back     *)
(*              differently (a numeric-looking text becomes a number);     *)
(*   "raise"    the range access raises and the cell is left unchanged.    *)
(***************************************************************************)
WriteOutcomes == {"ok", "mismatch", "raise"}

\* an error message f"{text}: {cause}" about a field (<<>> if about none)
Msg(text, cause, field) == <<text, cause, field>>

\* the text of a coerced cell, e.g. "45" read back as "45.0"
ExcelCoerced(value) == value \o <<".", "0">>

\* target_cell_ref: E<row> becomes F<row>, any other reference is kept
TargetCellOf(location) ==
    IF location.cell_reference[1] = "E"
    THEN <<location.row, PRICING_SETUP_OUTPUT_VALUE_COL_IDX>>
    ELSE <<location.row, location.column>>

SetCell(cells, cell, value) ==
    [c \in DOMAIN cells \cup {cell} |-> IF c = cell THEN value ELSE cells[c]]

EmptyPopulation(cells) ==
    [cells |-> cells, written |-> {}, successful_fields |-> 0,
     failed_fields |-> 0, error_messages |-> <<>>, populated_fields |-> <<>>]

\* the loop "for match in matches" from match k on; acc holds the worksheet
\* cells and the counters so far
RECURSIVE PopulateFrom(_, _, _, _)
PopulateFrom(matches, outcomes, k, acc) ==
    IF k > Len(matches) THEN acc
    ELSE LET match  == matches[k]
             target == TargetCellOf(match.target_location)
         IN  PopulateFrom(matches, outcomes, k + 1,
               CASE outcomes[k] = "ok" ->
                      [acc EXCEPT !.cells = SetCell(@, target, match.source_value),
                                  !.written = @ \cup {target},
                                  !.successful_fields = @ + 1,
                                  !.populated_fields = Append(@, match.source_field)]
                 [] outcomes[k] = "mismatch" ->
                      [acc EXCEPT !.cells = SetCell(@, target,
                                                    ExcelCoerced(match.source_value)),
                                  !.written = @ \cup {target},
                                  !.failed_fields = @ + 1]
                 [] OTHER ->
                      [acc EXCEPT !.error_messages =
                                      Append(@, Msg("Failed to populate", "range error", match.source_field)),
                                  !.failed_fields = @ + 1])

\* a writer whose loop ends at the first match whose write raises
populate_fields_in_worksheet_aborting(cells, matches, outcomes) ==
    LET raised == {k \in DOMAIN matches : outcomes[k] = "raise"}
        last == IF raised = {} THEN Len(matches)
                ELSE CHOOSE k \in raised : \A j \in raised : k <= j
        done == PopulateFrom(SubSeq(matches, 1, last), outcomes, 1,
                             EmptyPopulation(cells))
    IN  [cells |-> done.cells,
         written |-> done.written,
         successful_fields |-> done.successful_fields,
         failed_fields |-> done.failed_fields,
         total_fields |-> Len(matches),
         error_messages |-> done.error_messages,
         populated_fields |-> done.populated_fields]

\* PopulationResult plus the cells of the worksheet after the writes and the
\* set of cells that were assigned
populate_fields_in_worksheet(cells, matches, outcomes) ==
    LET done == PopulateFrom(matches, outcomes, 1, EmptyPopulation(cells))
    IN  [cells |-> done.cells,
         written |-> done.written,
         successful_fields |-> done.successful_fields,
         failed_fields |-> done.failed_fields,
         total_fields |-> Len(matches),
         error_messages |-> done.error_messages,
         populated_fields |-> done.populated_fields]

(***************************************************************************)
(* Optional values: None is <<>>, a present value x is <<x>>.              *)
(***************************************************************************)
None == <<>>

Some(x) == <<x>>

TheValue(opt) == opt[1]

\* dict.get(key, default) on a record
Get(dict, key, default) == IF key \in DOMAIN dict THEN dict[key] ELSE default

(***************************************************************************)
(* Bounds and sample inputs of the session model                           *)
(***************************************************************************)
\* rows of the target sheet that may hold text
MaxRow == 2

\* how many times in one run the platform may answer a call with a failure
\* (an import, an open, a save, a close, a quit, the write of one cell, ...)
MaxFaults == 2

GridCells == (1..MaxRow) \X {PRICING_SETUP_OUTPUT_FIELD_COL_IDX,
                             PRICING_SETUP_OUTPUT_VALUE_COL_IDX}

EmptyCells == [c \in GridCells |-> <<>>]

FieldA == <<"a", "b", "c">>

FieldB == <<"a", "b", "d">>

LabelA == <<"a", "b", "c", ":">>

LabelB == <<"1", ".", " ", "a", "b", "d">>

ConstantsA == << <<FieldA, <<"v", "1">>>> >>

ConstantsAB == << <<FieldA, <<"v", "1">>>>, <<FieldB, <<"v", "2">>>> >>

CliSamples == { <<>>, << <<FieldA, <<"4", "5">>>> >> }

\* client margin in percent; None when the user gave none
MarginSamples == { None, Some(0), Some(45) }

CellsA == [EmptyCells EXCEPT ![<<1, 5>>] = LabelA]

CellsAB == [EmptyCells EXCEPT ![<<1, 5>>] = LabelA, ![<<2, 5>>] = LabelB]

\* read_standard_cost_rates(..., row_count=7): rows 28 to 34, held as 1 to 7
RateRowCount == 7

\* a cell of the rate columns: empty, a number or a text
EmptyCell == [kind |-> "empty", number |-> 0, text |-> ""]
NumberCell(n) == [kind |-> "number", number |-> n, text |-> ""]
TextCell(t) == [kind |-> "text", number |-> 0, text |-> t]
\* f"${int(rate)}"
CurrencyCell(n) == [kind |-> "text", number |-> n, text |-> "$"]
EmptyColumn == [i \in 1..RateRowCount |-> EmptyCell]

\* column Q with a valid rate, a zero, a text and empty cells
MixedColumn ==
    [i \in 1..RateRowCount |->
        IF i = 1 THEN NumberCell(100) ELSE IF i = 2 THEN NumberCell(0)
        ELSE IF i = 3 THEN TextCell("n/a") ELSE EmptyCell]

\* the Resource Setup block of the constants file and the area of the
\* target it goes to, as find_source_resource_data and
\* find_target_editable_area report them
BlockRange == Some("B28:H34")
BlockData == << <<"r", "s">>, <<"t", "u">> >>
Blocks(source_range, target_range, source_data) ==
    [source_range |-> source_range, target_range |-> target_range,
     source_data |-> source_data]

Environment(constants_data, sheets, cells, column_q, constants_file_exists, blocks) ==
    [constants_data |-> constants_data, sheets |-> sheets, cells |-> cells,
     column_q |-> column_q, constants_file_exists |-> constants_file_exists,
     source_range |-> blocks.source_range, target_range |-> blocks.target_range,
     source_data |-> blocks.source_data]

\* constants file contents and target documents the workflow is run on
EnvSamples ==
    { Environment(ConstantsAB, {"Pricing Setup", "Resource Setup"}, CellsAB,
                  MixedColumn, TRUE, Blocks(BlockRange, BlockRange, BlockData)),
      Environment(ConstantsAB, {"Resource Setup"}, EmptyCells,
                  MixedColumn, TRUE, Blocks(None, BlockRange, BlockData)),
      Environment(<<>>, {"Pricing Setup", "Resource Setup"}, CellsA,
                  EmptyColumn, FALSE, Blocks(BlockRange, BlockRange, BlockData)),
      Environment(ConstantsA, {"Pricing Setup"}, CellsAB,
                  EmptyColumn, TRUE, Blocks(BlockRange, BlockRange, <<>>)),
      Environment(ConstantsA, {"Pricing Setup", "Resource Setup"}, EmptyCells,
                  MixedColumn, TRUE, Blocks(BlockRange, None, BlockData)) }

\* field_match_threshold: float = 0.8
DefaultThreshold == [num |-> 4, den |-> 5]

(***************************************************************************)
(* State                                                                   *)
(***************************************************************************)
VARIABLES
    pc,        \* position of the call in progress
    args,      \* arguments of the entry point called
    env,       \* constants file contents and sheets of the target document
    session,   \* fields of the ExcelSessionManager of the consolidated path
    excel,     \* the spreadsheet application: is it running, is the book open
    mem,       \* workbook held open by the consolidated session
    disk,      \* target document as saved
    results,   \* the results dict of consolidated_data_population
    pending,   \* exception in flight inside consolidated_data_population
    summary,   \* value returned by the wrapper (None until it returns)
    trace,     \* history: which calls were made, how often and in which order
    bench      \* inputs and outputs of the function benches

vars == <<pc, args, env, session, excel, mem, disk, results, pending,
          summary, trace, bench>>

InitialResults ==
    [data_population |-> None, resource_setup |-> None, rate_card |-> None,
     overall_success |-> FALSE, execution_time_seconds |-> 0,
     operations_completed |-> 0, total_operations |-> 0, errors |-> <<>>]

InitialSession ==
    [constructed |-> FALSE, app |-> FALSE, workbook |-> FALSE,
     worksheets |-> {}, _is_open |-> FALSE]

InitialTrace ==
    [opened |-> FALSE, attempted |-> <<>>, written |-> {},
     enter_calls |-> 0, exit_calls |-> 0, save_calls |-> 0,
     exit_saves |-> 0, close_calls |-> 0, quit_calls |-> 0,
     cdp_calls |-> 0, cdp_returns |-> 0, cdp_raised |-> FALSE,
     fallback_runs |-> 0, fallback_attempted |-> <<>>, fallback_cycles |-> 0,
     block_copy |-> None, final_save |-> "skipped", file_missing |-> FALSE,
     faults |-> 0]

\* 1 for a call that fails, 0 for one that works
Fault(ok) == IF ok THEN 0 ELSE 1

\* the platform may still fail that many times
MayFail(n) == trace.faults + n <= MaxFaults

NoBench == [stage |-> "idle"]

Init ==
    /\ pc = "start"
    /\ args \in [entry : {"wrapper", "direct"},
                 enable_resource_setup : BOOLEAN,
                 enable_rate_card : BOOLEAN,
                 client_margin_decimal : MarginSamples,
                 cli_data : CliSamples]
    /\ env \in EnvSamples
    /\ session = InitialSession
    /\ excel = [app_running |-> FALSE, book_open |-> FALSE]
    /\ mem = [cells |-> EmptyCells, block |-> <<>>, column_o |-> EmptyColumn,
              ops |-> {}]
    /\ disk = [cells |-> env.cells, block |-> <<>>, column_o |-> EmptyColumn,
               ops |-> {}]
    /\ results = InitialResults
    /\ pending = None
    /\ summary = None
    /\ trace = InitialTrace
    /\ bench = NoBench

(***************************************************************************)
(* populate_spreadsheet_data_consolidated_session, first part: the call of *)
(* consolidated_data_population                                            *)
(***************************************************************************)
\* client_margin_decimal or 0.0
OrZero(margin) == IF margin = None \/ margin = Some(0) THEN Some(0) ELSE margin

\* the client_margin_decimal that consolidated_data_population receives
CdpMargin ==
    IF args.entry = "wrapper" THEN OrZero(args.client_margin_decimal)
    ELSE args.client_margin_decimal

RateCardRequested == args.enable_rate_card /\ CdpMargin # None

\* "from excel_session_manager import consolidated_data_population" either
\* succeeds, and the function is called, or raises ImportError, and the
\* handler of the wrapper falls back.
WrapperCall ==
    /\ pc = "start"
    /\ args.entry = "wrapper"
    /\ \E importable \in BOOLEAN :
         /\ MayFail(Fault(importable))
         /\ pc' = IF importable THEN "cdp_begin" ELSE "fallback"
         /\ trace' = [trace EXCEPT !.faults = @ + Fault(importable)]
    /\ UNCHANGED <<args, env, session, excel, mem, disk, results, pending,
                   summary, bench>>

\* a caller that calls consolidated_data_population itself
DirectCall ==
    /\ pc = "start"
    /\ args.entry = "direct"
    /\ pc' = "cdp_begin"
    /\ UNCHANGED <<args, env, session, excel, mem, disk, results, pending,
                   summary, trace, bench>>

(***************************************************************************)
(* consolidated_data_population                                            *)
(***************************************************************************)
TotalOperations ==
    1 + (IF args.enable_resource_setup THEN 1 ELSE 0)
      + (IF RateCardRequested THEN 1 ELSE 0)

CdpBegin ==
    /\ pc = "cdp_begin"
    /\ results' = [InitialResults EXCEPT !.total_operations = TotalOperations]
    /\ trace' = [trace EXCEPT !.cdp_calls = @ + 1]
    /\ pc' = "session_init"
    /\ UNCHANGED <<args, env, session, excel, mem, disk, pending, summary, bench>>

\* ExcelSessionManager.__init__
SessionInit ==
    /\ pc = "session_init"
    /\ \E xlwings_available \in BOOLEAN, file_exists \in BOOLEAN :
         /\ MayFail(Fault(xlwings_available) + Fault(file_exists))
         /\ trace' = [trace EXCEPT !.faults = @ + Fault(xlwings_available)
                                                + Fault(file_exists),
                                   !.file_missing = xlwings_available /\ ~ file_exists]
         /\ IF ~ xlwings_available
            THEN /\ pending' = Some("xlwings is not available for Excel operations")
                 /\ pc' = "cdp_return"
                 /\ UNCHANGED session
            ELSE IF ~ file_exists
            THEN /\ pending' = Some("Excel file not found")
                 /\ pc' = "cdp_return"
                 /\ UNCHANGED session
            ELSE /\ session' = [InitialSession EXCEPT !.constructed = TRUE]
                 /\ pc' = "session_enter"
                 /\ UNCHANGED pending
    /\ UNCHANGED <<args, env, excel, mem, disk, results, summary, bench>>

\* ExcelSessionManager.__enter__ : xw.App(...) or books.open(...) may raise
SessionEnter ==
    /\ pc = "session_enter"
    /\ \E app_ok \in BOOLEAN, open_ok \in BOOLEAN, quit_ok \in BOOLEAN :
         IF ~ MayFail(Fault(app_ok) + Fault(open_ok) + Fault(quit_ok)) THEN FALSE ELSE
         IF app_ok /\ open_ok
         THEN /\ quit_ok
              /\ session' = [session EXCEPT !.app = TRUE, !.workbook = TRUE,
                                            !._is_open = TRUE]
              /\ excel' = [app_running |-> TRUE, book_open |-> TRUE]
              /\ mem' = disk
              /\ trace' = [trace EXCEPT !.enter_calls = @ + 1, !.opened = TRUE]
              /\ pc' = "step1"
              /\ UNCHANGED pending
         ELSE /\ session' = [session EXCEPT !.app = app_ok]
              /\ excel' = [app_running |-> app_ok /\ ~ quit_ok, book_open |-> FALSE]
              /\ pending' = Some("Failed to open Excel session")
              /\ trace' = [trace EXCEPT !.enter_calls = @ + 1,
                                        !.faults = @ + Fault(app_ok) + Fault(open_ok)
                                                     + Fault(quit_ok)]
              /\ pc' = "cdp_return"
              /\ UNCHANGED mem
    /\ UNCHANGED <<args, env, disk, results, summary, bench>>

\* ExcelSessionManager.get_worksheet: the name, or "raise" when the workbook
\* has no such sheet or the session is not open
get_worksheet(sess, sheets, name) ==
    IF ~ sess._is_open THEN "raise"
    ELSE IF name \notin sess.worksheets /\ name \notin sheets THEN "raise"
    ELSE name

(***************************************************************************)
(* The three inner operations.  Each returns                               *)
(*   [raised, value, cells, written, worksheets]                           *)
(* raised: an exception left the function; value: the dict returned.       *)
(***************************************************************************)
TargetWorksheet(cells) == [name |-> "Pricing Setup", cells |-> cells]

\* the matches _populate_data_in_session computes, <<>> if it stops earlier
MatchesInSession(sess, sheets, cells, constants_data, cli_data, threshold) ==
    LET merged_data == MergeInSession(constants_data, cli_data)
    IN  IF merged_data = <<>> THEN <<>>
        ELSE IF get_worksheet(sess, sheets, "Pricing Setup") = "raise" THEN <<>>
        ELSE find_matching_fields_in_worksheet(merged_data, TargetWorksheet(cells),
                                               threshold)

\* _populate_data_in_session from the point where the matches are known
PopulateDataWith(matches, sess, sheets, cells, constants_data, cli_data, outcomes) ==
    LET merged_data == MergeInSession(constants_data, cli_data)
        untouched(value) ==
            [raised |-> FALSE, value |-> value, cells |-> cells,
             written |-> {}, worksheets |-> sess.worksheets]
    IN  IF merged_data = <<>>
        THEN untouched([success |-> FALSE,
                        error |-> Msg("No data available for population", "", <<>>)])
        ELSE IF get_worksheet(sess, sheets, "Pricing Setup") = "raise"
        THEN \* ExcelSessionError caught by "except Exception" of the function
             untouched([success |-> FALSE,
                        error |-> Msg("Data population error",
                                      "Worksheet 'Pricing Setup' not found", <<>>)])
        ELSE LET result  == populate_fields_in_worksheet(cells, matches, outcomes)
             IN  [raised |-> FALSE,
                  value |-> [success |-> result.successful_fields > 0,
                             fields_matched |-> Len(matches),
                             fields_populated |-> result.successful_fields,
                             fields_failed |-> result.failed_fields,
                             errors |-> result.error_messages],
                  cells |-> result.cells,
                  written |-> result.written,
                  worksheets |-> sess.worksheets \cup {"Pricing Setup"}]

_populate_data_in_session(sess, sheets, cells, constants_data, cli_data, threshold, outcomes) ==
    PopulateDataWith(MatchesInSession(sess, sheets, cells, constants_data,
                                      cli_data, threshold),
                     sess, sheets, cells, constants_data, cli_data, outcomes)

\* "from resource_setup_populator import copy_resource_setup_in_worksheet":
\* resource_setup_populator defines no such name, the import raises
\* ImportError inside the try block and the function returns its error dict.
_populate_resource_setup_in_session(sess, cells) ==
    [raised |-> FALSE,
     value |-> [success |-> FALSE,
                error |-> Msg("Resource setup error",
                              "cannot import name 'copy_resource_setup_in_worksheet'",
                              <<>>)],
     cells |-> cells, written |-> {}, worksheets |-> sess.worksheets]

\* "from rate_card_calculator import read_standard_cost_rates_from_worksheet,
\* ..., write_engineering_rates_to_worksheet": rate_card_calculator defines
\* neither, the import raises ImportError inside the try block.
_calculate_rate_card_in_session(sess, cells, client_margin_decimal) ==
    [raised |-> FALSE,
     value |-> [success |-> FALSE,
                error |-> Msg("Rate card calculation error",
                              "cannot import name 'read_standard_cost_rates_from_worksheet'",
                              <<>>)],
     cells |-> cells, written |-> {}, worksheets |-> sess.worksheets]

\* a bookkeeping that counts every operation that returned, failed or not
RecordStepCountingReturns(res, key, failure_text, r) ==
    IF r.raised
    THEN [res EXCEPT !.errors = Append(@, Msg(failure_text, "exception", <<>>))]
    ELSE [res EXCEPT ![key] = Some(r.value),
                     !.operations_completed = @ + 1]

\* the try/except around one step of consolidated_data_population
RecordStep(res, key, failure_text, r) ==
    IF r.raised
    THEN [res EXCEPT !.errors = Append(@, Msg(failure_text, "exception", <<>>))]
    ELSE [res EXCEPT ![key] = Some(r.value),
                     !.operations_completed =
                        IF Get(r.value, "success", FALSE) THEN @ + 1 ELSE @]

\* what one step does to the workbook held open and to the history
StepEffects(op, r, failed_calls) ==
    /\ mem' = [cells |-> r.cells, block |-> mem.block,
               column_o |-> mem.column_o,
               ops |-> IF r.written # {} THEN mem.ops \cup {op} ELSE mem.ops]
    /\ session' = [session EXCEPT !.worksheets = r.worksheets]
    /\ trace' = [trace EXCEPT !.attempted = Append(@, op),
                              !.written = IF r.written # {} THEN @ \cup {op} ELSE @,
                              !.faults = @ + failed_calls]

\* cell writes that do not end with the value written and read back
WriteFaults(outcomes) ==
    Cardinality({i \in DOMAIN outcomes : outcomes[i] # "ok"})

\* the returns _populate_data_in_session can make in this state, each with
\* the number of cell writes that went wrong
Step1Returns ==
    LET matches == MatchesInSession(session, env.sheets, mem.cells,
                                    env.constants_data, args.cli_data,
                                    DefaultThreshold)
    IN  { [faults |-> WriteFaults(outcomes),
           return |-> PopulateDataWith(matches, session, env.sheets, mem.cells,
                          env.constants_data, args.cli_data, outcomes)] :
          outcomes \in { o \in [1..Len(matches) -> WriteOutcomes] :
                           MayFail(WriteFaults(o)) } }

\* Step 1: Data Population (constants + CLI)
Step1 ==
    /\ pc = "step1"
    /\ \E r \in Step1Returns :
         /\ results' = RecordStep(results, "data_population",
                                  "Data population failed", r.return)
         /\ StepEffects("data_population", r.return, r.faults)
    /\ pc' = "step2"
    /\ UNCHANGED <<args, env, excel, disk, pending, summary, bench>>

\* "if enable_resource_setup:"
Step2Guard == args.enable_resource_setup

\* Step 2: Resource Setup (if enabled)
Step2 ==
    /\ pc = "step2"
    /\ IF Step2Guard
       THEN LET r == _populate_resource_setup_in_session(session, mem.cells)
            IN  /\ results' = RecordStep(results, "resource_setup",
                                         "Resource setup failed", r)
                /\ StepEffects("resource_setup", r, 0)
       ELSE UNCHANGED <<results, mem, session, trace>>
    /\ pc' = "step3"
    /\ UNCHANGED <<args, env, excel, disk, pending, summary, bench>>

\* a rate card step that runs only while every earlier operation succeeded
Step3GuardAfterSuccess ==
    /\ args.enable_rate_card /\ CdpMargin # None
    /\ results.operations_completed = Len(trace.attempted)

\* "if enable_rate_card and client_margin_decimal is not None:"
Step3Guard == args.enable_rate_card /\ CdpMargin # None

\* Step 3: Rate Card Calculation (if enabled and margin provided)
Step3 ==
    /\ pc = "step3"
    /\ IF Step3Guard
       THEN LET r == _calculate_rate_card_in_session(session, mem.cells, CdpMargin)
            IN  /\ results' = RecordStep(results, "rate_card",
                                         "Rate card calculation failed", r)
                /\ StepEffects("rate_card", r, 0)
       ELSE UNCHANGED <<results, mem, session, trace>>
    /\ pc' = "final_save"
    /\ UNCHANGED <<args, env, excel, disk, pending, summary, bench>>

\* a success determination that wants every operation to have completed
SaveGuardAllCompleted == results.operations_completed = results.total_operations

\* "if operations_completed > 0:"
SaveGuard == results.operations_completed > 0

\* "Final save and success determination": session.save() may raise
\* ExcelSessionError, which leaves the with block
FinalSave ==
    /\ pc = "final_save"
    /\ IF SaveGuard
       THEN \E save_ok \in BOOLEAN :
              /\ MayFail(Fault(save_ok))
              /\ trace' = [trace EXCEPT !.save_calls = @ + 1,
                                        !.final_save = IF save_ok THEN "saved"
                                                       ELSE "raised",
                                        !.faults = @ + Fault(save_ok)]
              /\ IF save_ok
                 THEN /\ disk' = mem
                      /\ results' = [results EXCEPT !.overall_success = TRUE]
                      /\ UNCHANGED pending
                 ELSE /\ pending' = Some("Failed to save Excel file")
                      /\ UNCHANGED <<disk, results>>
       ELSE /\ results' = [results EXCEPT !.overall_success = FALSE]
            /\ UNCHANGED <<disk, pending, trace>>
    /\ pc' = "session_exit"
    /\ UNCHANGED <<args, env, session, excel, mem, summary, bench>>

\* an __exit__ that closes and quits without saving
ExitEffectsWithoutSave(sess, xl, m, d, save_ok, close_ok, quit_ok) ==
    LET closing == sess.workbook /\ sess._is_open
        closed == closing /\ close_ok
        quit   == sess.app /\ quit_ok
    IN  [session |-> [sess EXCEPT !._is_open = FALSE],
         excel |-> [app_running |-> xl.app_running /\ ~ quit,
                    book_open |-> xl.book_open /\ ~ closed /\ ~ quit],
         disk |-> d,
         save_calls |-> 0,
         close_calls |-> IF closing THEN 1 ELSE 0,
         quit_calls |-> IF sess.app THEN 1 ELSE 0]

\* ExcelSessionManager.__exit__ : save and close share one try block, quit
\* has its own; every exception is logged and swallowed; returns None, so an
\* exception in flight keeps propagating.
\* Returns the state after __exit__ given what the three calls do.
ExitEffects(sess, xl, m, d, save_ok, close_ok, quit_ok) ==
    LET saving == sess.workbook /\ sess._is_open
        saved  == saving /\ save_ok
        closed == saved /\ close_ok
        quit   == sess.app /\ quit_ok
    IN  [session |-> [sess EXCEPT !._is_open = FALSE],
         excel |-> [app_running |-> xl.app_running /\ ~ quit,
                    book_open |-> xl.book_open /\ ~ closed /\ ~ quit],
         disk |-> IF saved THEN m ELSE d,
         save_calls |-> IF saving THEN 1 ELSE 0,
         close_calls |-> IF saved THEN 1 ELSE 0,
         quit_calls |-> IF sess.app THEN 1 ELSE 0]

SessionExit ==
    /\ pc = "session_exit"
    /\ \E save_ok \in BOOLEAN, close_ok \in BOOLEAN, quit_ok \in BOOLEAN :
         LET after == ExitEffects(session, excel, mem, disk,
                                  save_ok, close_ok, quit_ok)
             failed_calls == Fault(save_ok) + Fault(close_ok) + Fault(quit_ok)
         IN  /\ MayFail(failed_calls)
             /\ session' = after.session
             /\ excel' = after.excel
             /\ disk' = after.disk
             /\ trace' = [trace EXCEPT !.exit_calls = @ + 1,
                                       !.exit_saves = @ + after.save_calls,
                                       !.close_calls = @ + after.close_calls,
                                       !.quit_calls = @ + after.quit_calls,
                                       !.faults = @ + failed_calls]
    /\ pc' = "cdp_return"
    /\ UNCHANGED <<args, env, mem, results, pending, summary, bench>>

\* a consolidated_data_population without its two except clauses
CdpWithoutExceptClauses(res, exc) ==
    [results |-> res, raised |-> exc # None]

\* the clauses "except ExcelSessionError" and "except Exception" of
\* consolidated_data_population: the exception in flight, if any, is turned
\* into an entry of results["errors"]; raised tells whether it escapes
CdpExceptClauses(res, exc) ==
    IF exc = None THEN [results |-> res, raised |-> FALSE]
    ELSE [results |-> [res EXCEPT !.errors =
                          Append(@, Msg("Excel session error", TheValue(exc), <<>>))],
          raised |-> FALSE]

\* end of consolidated_data_population: handlers, elapsed time, return
CdpReturn ==
    /\ pc = "cdp_return"
    /\ LET handled == CdpExceptClauses(results, pending)
       IN  /\ results' = IF handled.raised THEN results
                         ELSE [handled.results EXCEPT !.execution_time_seconds = 1]
           /\ trace' = [trace EXCEPT !.cdp_raised = handled.raised,
                                     !.cdp_returns = IF handled.raised THEN @ ELSE @ + 1]
           /\ pc' = IF args.entry = "direct" THEN "done"
                    ELSE IF handled.raised THEN "fallback"
                    ELSE "convert"
    /\ pending' = None
    /\ UNCHANGED <<args, env, session, excel, mem, disk, summary, bench>>

(***************************************************************************)
(* populate_spreadsheet_data_consolidated_session, second part: the        *)
(* conversion of the result into a PopulationSummary                       *)
(***************************************************************************)
\* consolidated_result.get(key, {}) returns None for a key that is present
\* with value None; the following .get on None raises AttributeError
ConversionRaises(res) ==
    \/ res.data_population = None
    \/ res.resource_setup = None
    \/ res.rate_card = None

SummaryOf(res, cli_data) ==
    LET data_pop       == TheValue(res.data_population)
        resource_setup == TheValue(res.resource_setup)
        rate_card      == TheValue(res.rate_card)
        completed      == res.operations_completed
        total          == res.total_operations
    IN  [constants_file_found |-> Get(data_pop, "success", FALSE),
         constants_loaded |-> Len(cli_data) + Get(data_pop, "fields_matched", 0),
         fields_matched |-> Get(data_pop, "fields_matched", 0)
                            + Get(resource_setup, "rows_copied", 0)
                            + Get(rate_card, "standard_rates_found", 0),
         fields_populated |-> Get(data_pop, "fields_populated", 0)
                              + Get(resource_setup, "rows_copied", 0)
                              + Get(rate_card, "rates_written", 0),
         execution_time_seconds |-> res.execution_time_seconds,
         errors |-> res.errors \o Get(data_pop, "errors", <<>>)
                               \o Get(resource_setup, "errors", <<>>)
                               \o Get(rate_card, "errors", <<>>),
         warnings |-> (IF ~ res.overall_success
                       THEN <<"Some operations in consolidated session failed">>
                       ELSE <<>>)
                      \o (IF completed < total
                          THEN <<"Only some operations completed">>
                          ELSE <<>>)]

\* a wrapper whose handler reports the failure instead of falling back
WrapperConvertGivingUp ==
    /\ pc = "convert"
    /\ summary' = IF ConversionRaises(results)
                  THEN Some([constants_file_found |-> FALSE, constants_loaded |-> 0,
                             fields_matched |-> 0, fields_populated |-> 0,
                             execution_time_seconds |-> 1,
                             errors |-> <<Msg("Consolidated session failed", "", <<>>)>>,
                             warnings |-> <<>>])
                  ELSE Some(SummaryOf(results, args.cli_data))
    /\ pc' = "done"
    /\ UNCHANGED <<args, env, session, excel, mem, disk, results, pending,
                   trace, bench>>

WrapperConvert ==
    /\ pc = "convert"
    /\ IF ConversionRaises(results)
       THEN /\ pc' = "fallback"
            /\ UNCHANGED summary
       ELSE /\ summary' = Some(SummaryOf(results, args.cli_data))
            /\ pc' = "done"
    /\ UNCHANGED <<args, env, session, excel, mem, disk, results, pending,
                   trace, bench>>

(***************************************************************************)
(* The independently-sessioned workflow                                    *)
(* populate_spreadsheet_data_with_cli_resources_and_rates: each operation  *)
(* opens, saves and closes the target document itself.                     *)
(***************************************************************************)
\* a merge in which the constants win over the user's values
merge_constants_over_cli(cli_data, constants_data) ==
    DictUpdate(cli_data, constants_data)

merge_cli_with_constants(cli_data, constants_data) ==
    IF cli_data = <<>> THEN constants_data
    ELSE IF constants_data = <<>> THEN cli_data
    ELSE DictUpdate(constants_data, cli_data)

\* openpyxl scan of the two columns: cells whose value is None are skipped
scan_worksheet_for_pricing_setup_fields(cells) ==
    LET allowed_columns == <<PRICING_SETUP_OUTPUT_FIELD_COL_IDX,
                             PRICING_SETUP_OUTPUT_VALUE_COL_IDX>>
        order == ScanOrder(OptimizedScanRows, allowed_columns)
    IN  SelectSeq(ScannedLocations(cells, order),
                  LAMBDA loc : _is_potential_field_name(loc.content))

\* min(worksheet.max_row, 100) and min(worksheet.max_column, 20)
FieldScanRows == 100

FieldScanCols == 20

\* openpyxl scan of a sheet that is not a Pricing Setup sheet.  The content
\* of a location is the text find_matching_fields reads back from the cell.
scan_worksheet_for_fields(cells) ==
    LET order == ScanOrder(FieldScanRows, [c \in 1..FieldScanCols |-> c])
    IN  SelectSeq(ScannedLocations(cells, order),
                  LAMBDA loc : _is_potential_field_name(loc.content))

\* the candidates of find_matching_fields: 'pricing setup' in the title
TargetLocations(worksheet) ==
    IF worksheet.name \in PricingSetupSheetNames
    THEN scan_worksheet_for_pricing_setup_fields(worksheet.cells)
    ELSE scan_worksheet_for_fields(worksheet.cells)

find_matching_fields(source_fields, worksheet, threshold) ==
    IF source_fields = <<>> THEN <<>>
    ELSE LET target_locations == TargetLocations(worksheet)
         IN  IF target_locations = <<>> THEN <<>>
             ELSE MatchAllFields(source_fields, target_locations, threshold)

\* populate_matched_fields_xlwings: own application, open, loop, save, close
populate_matched_fields_xlwings(cells, sheets, matches, outcomes, open_ok, save_ok) ==
    LET failure(text) ==
            [cells |-> cells, written |-> {}, saved |-> FALSE,
             successful_fields |-> 0, failed_fields |-> Len(matches),
             total_fields |-> Len(matches),
             error_messages |-> <<Msg(text, "", <<>>)>>,
             populated_fields |-> <<>>]
    IN  IF ~ open_ok THEN failure("Failed to open/save .xlsb file")
        ELSE IF "Pricing Setup" \notin sheets
        THEN failure("Pricing Setup worksheet not found in .xlsb file")
        ELSE IF ~ save_ok
        THEN LET done == PopulateFrom(matches, outcomes, 1, EmptyPopulation(cells))
             IN  [failure("Failed to open/save .xlsb file") EXCEPT
                      !.error_messages = done.error_messages \o @,
                      !.populated_fields = done.populated_fields]
        ELSE LET done == PopulateFrom(matches, outcomes, 1, EmptyPopulation(cells))
             IN  [cells |-> done.cells, written |-> done.written, saved |-> TRUE,
                  successful_fields |-> done.successful_fields,
                  failed_fields |-> done.failed_fields,
                  total_fields |-> Len(matches),
                  error_messages |-> done.error_messages,
                  populated_fields |-> done.populated_fields]

\* write_value_to_cell: worksheet.cell(row, column).value = value on the
\* location itself; True iff the value reads back, False when it does not
\* or when the assignment raises
write_value_to_cell(cells, location, value, outcome) ==
    LET target == <<location.row, location.column>>
    IN  CASE outcome = "ok" ->
               [cells |-> SetCell(cells, target, value), written |-> {target},
                success |-> TRUE]
          [] outcome = "mismatch" ->
               [cells |-> SetCell(cells, target, ExcelCoerced(value)),
                written |-> {target}, success |-> FALSE]
          [] OTHER -> [cells |-> cells, written |-> {}, success |-> FALSE]

\* the loop "for match in matches" of populate_matched_fields from match k on
RECURSIVE WriteFrom(_, _, _, _)
WriteFrom(matches, outcomes, k, acc) ==
    IF k > Len(matches) THEN acc
    ELSE LET match == matches[k]
             wrote == write_value_to_cell(acc.cells, match.target_location,
                                          match.source_value, outcomes[k])
         IN  WriteFrom(matches, outcomes, k + 1,
               IF wrote.success
               THEN [acc EXCEPT !.cells = wrote.cells,
                                !.written = @ \cup wrote.written,
                                !.successful_fields = @ + 1,
                                !.populated_fields =
                                    Append(@, match.source_field)]
               ELSE [acc EXCEPT !.cells = wrote.cells,
                                !.written = @ \cup wrote.written,
                                !.failed_fields = @ + 1,
                                !.error_messages =
                                    Append(@, Msg("Failed to populate", "",
                                                  match.source_field))])

\* populate_matched_fields (openpyxl). load_ok: the import and
\* load_workbook; save_ok: workbook.save.  cells is the document as saved.
populate_matched_fields(cells, sheets, matches, outcomes, load_ok, save_ok) ==
    LET failure(text, failed) ==
            [cells |-> cells, written |-> {}, saved |-> FALSE,
             successful_fields |-> 0, failed_fields |-> failed,
             total_fields |-> Len(matches),
             error_messages |-> <<Msg(text, "", <<>>)>>,
             populated_fields |-> <<>>]
    IN  IF matches = <<>> THEN failure("No field matches provided", 0)
        ELSE IF ~ load_ok THEN failure("Error during population", Len(matches))
        ELSE IF "Pricing Setup" \notin sheets
        THEN failure("Target worksheet 'Pricing Setup' not found", Len(matches))
        ELSE IF ~ save_ok THEN failure("Error during population", Len(matches))
        ELSE LET done == WriteFrom(matches, outcomes, 1, EmptyPopulation(cells))
             IN  [cells |-> done.cells, written |-> done.written, saved |-> TRUE,
                  successful_fields |-> done.successful_fields,
                  failed_fields |-> done.failed_fields,
                  total_fields |-> Len(matches),
                  error_messages |-> done.error_messages,
                  populated_fields |-> done.populated_fields]

PopulationSummary(found, loaded, matched, populated, errors, warnings) ==
    [constants_file_found |-> found, constants_loaded |-> loaded,
     fields_matched |-> matched, fields_populated |-> populated,
     execution_time_seconds |-> 1, errors |-> errors, warnings |-> warnings]

\* the matches populate_spreadsheet_data_with_cli computes once the target
\* could be read
FallbackMatches ==
    LET merged_data == IF args.cli_data # <<>>
                       THEN merge_cli_with_constants(args.cli_data, env.constants_data)
                       ELSE env.constants_data
    IN  IF "Pricing Setup" \in env.sheets
        THEN find_matching_fields(merged_data, TargetWorksheet(disk.cells),
                                  DefaultThreshold)
        ELSE <<>>

\* populate_spreadsheet_data_with_cli for an .xlsb target, given the matches
\* it finds.  read_ok: the temporary copy could be made and loaded; open_ok,
\* save_ok and outcomes: what populate_matched_fields_xlwings meets.
\* Returns the document as saved, the summary and the number of times the
\* document was opened.
populate_spreadsheet_data_with_cli(cli_data, constants_data, sheets, document, matches, read_ok, open_ok, save_ok, outcomes) ==
    LET merged_data == IF cli_data # <<>>
                       THEN merge_cli_with_constants(cli_data, constants_data)
                       ELSE constants_data
        loaded == Len(constants_data)
        early(errors, warnings, cycles) ==
            [disk |-> document, cycles |-> cycles,
             summary |-> PopulationSummary(loaded > 0, loaded, 0, 0, errors, warnings)]
        unexpected(cause) ==
            PopulationSummary(FALSE, 0, 0, 0,
                <<Msg("Unexpected error during population", cause, <<>>)>>, <<>>)
    IN  IF merged_data = <<>>
        THEN early(<<>>, <<"No data available for population">>, 0)
        ELSE IF ~ read_ok
        THEN [disk |-> document, cycles |-> 1, summary |-> unexpected("")]
        ELSE IF "Pricing Setup" \notin sheets
        THEN early(<<Msg("Target worksheet 'Pricing Setup' not found", "", <<>>)>>,
                   <<>>, 1)
        ELSE LET result == populate_matched_fields_xlwings(document.cells, sheets,
                               matches, outcomes, open_ok, save_ok)
             IN  [disk |-> IF result.saved
                           THEN [document EXCEPT
                                   !.cells = result.cells,
                                   !.ops = IF result.written # {}
                                           THEN @ \cup {"data_population"} ELSE @]
                           ELSE document,
                  cycles |-> 2,
                  summary |->
                      IF cli_data # <<>> /\ matches # <<>>
                      THEN \* match.field_name: FieldMatch has no such attribute;
                           \* caught by "except Exception"
                           unexpected("'FieldMatch' object has no attribute 'field_name'")
                      ELSE PopulationSummary(loaded > 0, loaded, Len(matches),
                               result.successful_fields, result.error_messages, <<>>)]

\* what the platform may do to one run of the population: each answer with
\* the number of failed calls it takes
PopulationAnswers(matches) ==
    { a \in [read_ok : BOOLEAN, open_ok : BOOLEAN, save_ok : BOOLEAN,
             outcomes : [1..Len(matches) -> WriteOutcomes]] :
        MayFail(Fault(a.read_ok) + Fault(a.open_ok) + Fault(a.save_ok)
                    + WriteFaults(a.outcomes)) }

\* the returns populate_spreadsheet_data_with_cli can make in this state
FbPopulateReturns ==
    LET matches == FallbackMatches
    IN  { [faults |-> Fault(a.read_ok) + Fault(a.open_ok) + Fault(a.save_ok)
                          + WriteFaults(a.outcomes),
           return |-> populate_spreadsheet_data_with_cli(args.cli_data,
                          env.constants_data, env.sheets, disk, matches,
                          a.read_ok, a.open_ok, a.save_ok, a.outcomes)] :
          a \in PopulationAnswers(matches) }

\* Step 1 of populate_spreadsheet_data_with_cli_and_resources.  The summary
\* is the value the whole workflow returns in the end.
FbPopulate ==
    /\ pc = "fallback"
    /\ \E r \in FbPopulateReturns :
         /\ disk' = r.return.disk
         /\ summary' = Some(r.return.summary)
         /\ trace' = [trace EXCEPT !.fallback_runs = @ + 1,
                                   !.fallback_attempted = Append(@, "data_population"),
                                   !.fallback_cycles = @ + r.return.cycles,
                                   !.faults = @ + r.faults]
    /\ pc' = "fb_resource"
    /\ UNCHANGED <<args, env, session, excel, mem, results, pending, bench>>

(***************************************************************************)
(* Resource Setup block copy of the independently-sessioned workflow       *)
(***************************************************************************)
\* what one block copy meets: the platform (xlwings importable, the two
\* documents open, the target saves) and the two Resource Setup sheets
CopyInputs(xw, open_ok, save_ok) ==
    [xw |-> xw, open_ok |-> open_ok, save_ok |-> save_ok,
     source_range |-> env.source_range, target_range |-> env.target_range,
     source_data |-> env.source_data]

\* ResourceCopyResult
ResourceCopyResult(cells_copied, source_range, target_range, success, error_messages) ==
    [cells_copied |-> cells_copied, source_range |-> source_range,
     target_range |-> target_range, success |-> success,
     error_messages |-> error_messages]

\* a copy that reports a block it cannot find the way it reports any other
\* failure, with a result record
copy_resource_setup_range_soft(in, block) ==
    IF in.xw /\ in.open_ok /\ in.source_range # None /\ in.target_range # None
             /\ in.source_data # <<>> /\ in.save_ok
    THEN [raised |-> None,
          value |-> Some(ResourceCopyResult(
                        Len(in.source_data) * Len(in.source_data[1]),
                        TheValue(in.source_range), TheValue(in.target_range),
                        TRUE, <<>>)),
          block |-> in.source_data]
    ELSE [raised |-> None,
          value |-> Some(ResourceCopyResult(0, "", "", FALSE,
                        <<"Resource setup copy failed">>)),
          block |-> block]

\* copy_resource_setup_range: raised is the ResourceSetupError the call
\* leaves with (None when it returns), value is the returned record, block
\* is the saved content of the target block afterwards
copy_resource_setup_range(in, block) ==  \* in: CopyInputs
    LET raise(text) == [raised |-> Some(text), value |-> None, block |-> block]
        unexpected == [raised |-> None,
                       value |-> Some(ResourceCopyResult(0, "", "", FALSE,
                           <<"Unexpected error during resource setup copy">>)),
                       block |-> block]
    IN  IF ~ in.xw
        THEN raise("xlwings not available - required for Resource Setup population")
        ELSE IF ~ in.open_ok THEN unexpected
        ELSE IF in.source_range = None
        THEN raise("No resource data found in source worksheet")
        ELSE IF in.target_range = None
        THEN raise("No suitable editable area found in target worksheet")
        ELSE IF in.source_data = <<>>
        THEN raise("Source range contains no data")
        ELSE IF ~ in.save_ok THEN unexpected
        ELSE [raised |-> None,
              value |-> Some(ResourceCopyResult(
                            Len(in.source_data) * Len(in.source_data[1]),
                            TheValue(in.source_range), TheValue(in.target_range),
                            TRUE, <<>>)),
              block |-> in.source_data]

\* populate_resource_setup_data: None when the constants file is missing
\* or when anything was raised, otherwise the record of the copy
populate_resource_setup_data(constants_file_exists, in, block) ==
    IF ~ constants_file_exists
    THEN [raised |-> None, value |-> None, block |-> block, copy |-> None]
    ELSE LET copy == copy_resource_setup_range(in, block)
         IN  [raised |-> None,
              value |-> IF copy.raised # None THEN None ELSE copy.value,
              block |-> copy.block,
              copy |-> Some([raised |-> copy.raised, value |-> copy.value,
                             in |-> in, before |-> block, after |-> copy.block])]

(***************************************************************************)
(* The "Resource Setup" sheets in detail.  A sheet maps <<row, column>> to  *)
(* a text, an absent cell is empty; a range "C28:H34" is the record of its  *)
(* first row and column and of its numbers of rows and columns.            *)
(***************************************************************************)
\* resource_row_count: int = 7
ResourceRowCount == 7

\* f"{start_col}{start_row}:{end_col}{start_row + expected_rows - 1}"
RangeOf(start_col, start_row, end_col) ==
    [row |-> start_row, column |-> start_col, rows |-> ResourceRowCount,
     columns |-> end_col - start_col + 1]

\* worksheet.range(rng).value: a list of rows, "" for an empty cell
RangeValue(sheet, rng) ==
    [i \in 1..rng.rows |->
        [j \in 1..rng.columns |->
            LET cell == <<rng.row + i - 1, rng.column + j - 1>>
            IN  IF cell \in DOMAIN sheet THEN sheet[cell] ELSE ""]]

\* ' '.join(str(cell) for cell in row if cell) is a placeholder or empty:
\* at most one cell holds a text and that text is a placeholder
PlaceholderTexts == {"Group 1", "Group 2", "Group 3"}

IsPlaceholderRow(row) ==
    LET filled == {j \in DOMAIN row : row[j] # ""}
    IN  \/ filled = {}
        \/ Cardinality(filled) = 1 /\ \A j \in filled : row[j] \in PlaceholderTexts

\* texts that contain one of the resource_indicators
IndicatorTexts == {"manager", "consultant"}

\* meaningful_rows >= 2
_has_meaningful_resource_data(data) ==
    Cardinality({i \in DOMAIN data :
                   \E j \in DOMAIN data[i] : data[i][j] \in IndicatorTexts}) >= 2

\* (empty_or_placeholder_rows / total_rows) >= 0.8
_is_suitable_target_area(data) ==
    5 * Cardinality({i \in DOMAIN data : IsPlaceholderRow(data[i])})
        >= 4 * Len(data)

\* the first range of a list whose value passes the test, None if none does
FirstRange(ranges, passes) ==
    LET passing == {k \in DOMAIN ranges : passes[k]}
    IN  IF passing = {} THEN None
        ELSE Some(ranges[CHOOSE k \in passing : \A m \in passing : k <= m])

\* the ranges of a list whose value holds a resource table
Meaningful(sheet, ranges) ==
    [k \in DOMAIN ranges |->
        _has_meaningful_resource_data(RangeValue(sheet, ranges[k]))]

\* the ranges of a list whose value is an area to write to
Suitable(sheet, ranges) ==
    [k \in DOMAIN ranges |->
        _is_suitable_target_area(RangeValue(sheet, ranges[k]))]

\* used_range.last_cell.row
LastUsedRow(sheet) ==
    IF DOMAIN sheet = {} THEN 1
    ELSE CHOOSE r \in {c[1] : c \in DOMAIN sheet} :
            \A c \in DOMAIN sheet : c[1] <= r

\* for start_row in range(1, min(max_row - expected_rows + 2, 20)):
\*     for start_col in ['A', 'B', 'C']: six columns wide
_comprehensive_resource_search(sheet) ==
    LET max_row == Min(LastUsedRow(sheet), 50)
        last == Min(max_row - ResourceRowCount + 2, 20) - 1
        ranges == [k \in 1..(3 * (IF last < 0 THEN 0 ELSE last)) |->
                      LET col == ((k - 1) % 3) + 1
                      IN  RangeOf(col, ((k - 1) \div 3) + 1, col + 5)]
    IN  FirstRange(ranges, Meaningful(sheet, ranges))

find_source_resource_data(source_worksheet) ==
    LET test_ranges == << RangeOf(3, 28, 8), RangeOf(3, 25, 8), RangeOf(3, 30, 8),
                          RangeOf(2, 28, 8), RangeOf(4, 28, 9), RangeOf(1, 28, 8) >>
        found == FirstRange(test_ranges, Meaningful(source_worksheet, test_ranges))
    IN  IF found # None THEN found
        ELSE _comprehensive_resource_search(source_worksheet)

\* for start_row in range(20, 101, 5): for start_col in ['B', 'C']: to 'H'
_find_any_empty_area(sheet) ==
    LET ranges == [k \in 1..34 |->
                      RangeOf(2 + ((k - 1) % 2), 20 + 5 * ((k - 1) \div 2), 8)]
    IN  FirstRange(ranges, Suitable(sheet, ranges))

find_target_editable_area(target_worksheet) ==
    LET search_locations == <<28, 25, 30, 20, 35>>
        column_starts == <<2, 3, 1>>
        ranges == [k \in 1..15 |->
                      RangeOf(column_starts[((k - 1) % 3) + 1],
                              search_locations[((k - 1) \div 3) + 1], 8)]
        found == FirstRange(ranges, Suitable(target_worksheet, ranges))
    IN  IF found # None THEN found ELSE _find_any_empty_area(target_worksheet)

\* target_ws.range(target_range).value = source_data: xlwings writes the
\* rows of the data from the first cell of the range on
RangeWrite(sheet, rng, data) ==
    LET cells == { <<rng.row + i - 1, rng.column + j - 1>> :
                     i \in DOMAIN data, j \in 1..Len(data[1]) }
    IN  [c \in DOMAIN sheet \cup cells |->
            IF c \in cells
            THEN data[c[1] - rng.row + 1][c[2] - rng.column + 1]
            ELSE sheet[c]]

\* Step 2 of populate_spreadsheet_data_with_cli_and_resources
FbResource ==
    /\ pc = "fb_resource"
    /\ IF args.enable_resource_setup
       THEN \E xw \in BOOLEAN, open_ok \in BOOLEAN, save_ok \in BOOLEAN :
              LET in == CopyInputs(xw, open_ok, save_ok)
                  r == populate_resource_setup_data(env.constants_file_exists, in,
                                                    disk.block)
                  failed_calls == Fault(xw) + Fault(open_ok) + Fault(save_ok)
              IN  /\ MayFail(failed_calls)
                  /\ disk' = [disk EXCEPT !.block = r.block,
                                 !.ops = IF r.block # disk.block
                                         THEN @ \cup {"resource_setup"} ELSE @]
                  /\ trace' = [trace EXCEPT
                                 !.fallback_attempted = Append(@, "resource_setup"),
                                 !.fallback_cycles =
                                     IF r.copy # None /\ in.xw THEN @ + 1 ELSE @,
                                 !.faults = @ + failed_calls,
                                 !.block_copy = Some([copy |-> r.copy,
                                                      returned |-> r.value,
                                                      raised |-> r.raised])]
       ELSE UNCHANGED <<disk, trace>>
    /\ pc' = "fb_rate"
    /\ UNCHANGED <<args, env, session, excel, mem, results, pending, summary, bench>>

(***************************************************************************)
(* Rate card calculation of the independently-sessioned workflow           *)
(***************************************************************************)
\* a rounding that drops the fractional part
Truncate(num, den) == num \div den

\* round(): the nearest integer, the even one of two equally near
Round(num, den) ==
    LET q == num \div den
        r == num % den
    IN  IF 2 * r < den THEN q
        ELSE IF 2 * r > den THEN q + 1
        ELSE IF q % 2 = 0 THEN q ELSE q + 1

\* calculate_engineering_rate; the margin is held in percent.  The result
\* is None where the function raises ValueError.
calculate_engineering_rate(standard_cost_rate, margin_percent) ==
    IF standard_cost_rate <= 0 THEN None
    ELSE IF margin_percent < 0 \/ margin_percent >= 100 THEN None
    ELSE Some(Round(standard_cost_rate * 100, 100 - margin_percent))

\* StandardCostRate of each row; row_index counts from the first row read
read_standard_cost_rates(column_q) ==
    [i \in 1..RateRowCount |->
        LET cell_value == column_q[i]
            invalid(error_message) ==
                [row_index |-> i, is_valid |-> FALSE, cost_rate |-> 0,
                 error_message |-> error_message]
        IN  IF cell_value.kind = "empty" THEN invalid("Empty cell")
            ELSE IF cell_value.kind = "text" THEN invalid("Non-numeric value")
            ELSE IF cell_value.number <= 0
            THEN invalid("Invalid rate (must be positive)")
            ELSE [row_index |-> i, is_valid |-> TRUE,
                  cost_rate |-> cell_value.number, error_message |-> ""]]

\* EngineeringRate of one StandardCostRate; failed marks an entry whose
\* calculation raised
EngineeringRateOf(standard_rate, margin_percent) ==
    IF ~ standard_rate.is_valid
    THEN [row_index |-> standard_rate.row_index, is_valid |-> FALSE,
          engineering_rate |-> None, failed |-> FALSE,
          error_message |-> IF standard_rate.error_message # ""
                            THEN standard_rate.error_message
                            ELSE "Invalid standard rate"]
    ELSE LET v == calculate_engineering_rate(standard_rate.cost_rate,
                                             margin_percent)
         IN  [row_index |-> standard_rate.row_index, is_valid |-> v # None,
              engineering_rate |-> v, failed |-> v = None,
              error_message |-> IF v = None THEN "ValueError" ELSE ""]

RateCalculationResult(calculated_rates, total_processed) ==
    [calculated_rates |-> calculated_rates,
     total_processed |-> total_processed,
     successful_calculations |->
         Cardinality({i \in DOMAIN calculated_rates : calculated_rates[i].is_valid}),
     errors |->
         Cardinality({i \in DOMAIN calculated_rates : calculated_rates[i].failed})]

\* a batch that leaves the skipped entries out of the list
calculate_engineering_rates_dropping(standard_rates, margin_percent) ==
    RateCalculationResult(
        SelectSeq([i \in DOMAIN standard_rates |->
                      EngineeringRateOf(standard_rates[i], margin_percent)],
                  LAMBDA rate : rate.is_valid \/ rate.failed),
        Len(standard_rates))

calculate_engineering_rates(standard_rates, margin_percent) ==
    RateCalculationResult(
        [i \in DOMAIN standard_rates |->
            EngineeringRateOf(standard_rates[i], margin_percent)],
        Len(standard_rates))

\* write_engineering_rates: "$<int>" into the cell start_row + i of column O
\* for the valid rate at position i of the list; raising is the set of rows
\* whose cell assignment raises
write_engineering_rates(column_o, engineering_rates, raising) ==
    LET valid == {i \in DOMAIN engineering_rates : engineering_rates[i].is_valid}
    IN  [column_o |-> [i \in DOMAIN column_o |->
                          IF i \in valid \ raising
                          THEN CurrencyCell(
                                   TheValue(engineering_rates[i].engineering_rate))
                          ELSE column_o[i]],
         success |-> valid \cap raising = {},
         written_count |-> Cardinality(valid \ raising),
         skipped_count |-> Len(engineering_rates) - Cardinality(valid),
         total_processed |-> Len(engineering_rates),
         errors |-> Cardinality(valid \cap raising)]

\* calculate_rate_card_in_worksheet: the calculation on a worksheet that is
\* already open; raising: rows whose write raises.  column_o is the column
\* of the open worksheet afterwards.
calculate_rate_card_in_worksheet(column_q, column_o, margin_percent, raising) ==
    LET initial == [success |-> FALSE, standard_rates_found |-> 0,
                    successful_calculations |-> 0, rates_written |-> 0,
                    errors |-> <<>>, warnings |-> <<>>]
        standard_rates == read_standard_cost_rates(column_q)
        found == Cardinality({i \in 1..RateRowCount : standard_rates[i].is_valid})
        calculation_result == calculate_engineering_rates(standard_rates, margin_percent)
        write_result == write_engineering_rates(column_o,
                            calculation_result.calculated_rates, raising)
    IN  IF found = 0
        THEN [results |-> [initial EXCEPT !.warnings =
                              <<"No valid standard cost rates found in column Q">>],
              column_o |-> column_o]
        ELSE [results |-> [initial EXCEPT
                             !.standard_rates_found = found,
                             !.successful_calculations =
                                 calculation_result.successful_calculations,
                             !.rates_written = IF write_result.success
                                               THEN write_result.written_count ELSE 0,
                             !.success = write_result.success,
                             !.errors =
                                 (IF calculation_result.errors > 0
                                  THEN <<"Calculation failed">> ELSE <<>>)
                                 \o (IF write_result.success THEN <<>>
                                     ELSE <<"Failed to write">>)],
              column_o |-> write_result.column_o]

\* perform_rate_card_calculation.  env_ok: validate_excel_environment();
\* open_ok: open_excel_file_safely(); raising: rows whose write raises;
\* save_ok: workbook.save().  column_o is the column as saved afterwards.
perform_rate_card_calculation(sheets, column_q, column_o, margin_percent, env_ok, open_ok, raising, save_ok) ==
    LET initial == [success |-> FALSE, standard_rates_found |-> 0,
                    successful_calculations |-> 0, rates_written |-> 0,
                    errors |-> <<>>, warnings |-> <<>>]
        standard_rates == read_standard_cost_rates(column_q)
        found == Cardinality({i \in 1..RateRowCount : standard_rates[i].is_valid})
        calculation_result == calculate_engineering_rates(standard_rates, margin_percent)
        write_result == write_engineering_rates(column_o,
                            calculation_result.calculated_rates, raising)
        calc_errors == IF calculation_result.errors > 0
                       THEN <<"Calculation failed">> ELSE <<>>
        written == [initial EXCEPT
                     !.standard_rates_found = found,
                     !.warnings = IF found = 0
                                  THEN <<"No valid standard cost rates found in column Q">>
                                  ELSE <<>>,
                     !.successful_calculations =
                         calculation_result.successful_calculations,
                     !.rates_written = IF write_result.success
                                       THEN write_result.written_count ELSE 0,
                     !.success = write_result.success,
                     !.errors = calc_errors \o
                                (IF write_result.success THEN <<>>
                                 ELSE <<"Failed to write">>)]
    IN  IF ~ env_ok
        THEN [results |-> [initial EXCEPT !.errors =
                              <<"Excel environment validation failed">>],
              column_o |-> column_o, opened |-> FALSE]
        ELSE IF ~ open_ok
        THEN [results |-> [initial EXCEPT !.errors = <<"Excel access error">>],
              column_o |-> column_o, opened |-> FALSE]
        ELSE IF "Resource Setup" \notin sheets
        THEN [results |-> [initial EXCEPT !.errors = <<"Worksheet error">>],
              column_o |-> column_o, opened |-> TRUE]
        ELSE IF ~ save_ok
        THEN [results |-> [written EXCEPT !.errors = @ \o <<"Unexpected error">>],
              column_o |-> column_o, opened |-> TRUE]
        ELSE [results |-> written, column_o |-> write_result.column_o,
              opened |-> TRUE]

RateFaults(import_ok, env_ok, open_ok, raising, save_ok) ==
    Fault(import_ok) + Fault(env_ok) + Fault(open_ok) + Cardinality(raising)
        + Fault(save_ok)

\* Step 7 of populate_spreadsheet_data_with_cli_resources_and_rates and the
\* return of base_summary.  import_ok: excel_rate_integration is importable.
FbRate ==
    /\ pc = "fb_rate"
    /\ IF args.enable_rate_card /\ args.client_margin_decimal # None
       THEN \E import_ok \in BOOLEAN, env_ok \in BOOLEAN, open_ok \in BOOLEAN,
               raising \in SUBSET {1}, save_ok \in BOOLEAN :
              IF ~ MayFail(RateFaults(import_ok, env_ok, open_ok, raising, save_ok))
              THEN FALSE ELSE
              IF ~ import_ok
              THEN /\ trace' = [trace EXCEPT
                                  !.fallback_attempted = Append(@, "rate_card"),
                                  !.faults = @ + RateFaults(import_ok, env_ok,
                                                     open_ok, raising, save_ok)]
                   /\ UNCHANGED disk
              ELSE LET r == perform_rate_card_calculation(env.sheets, env.column_q,
                                disk.column_o, TheValue(args.client_margin_decimal),
                                env_ok, open_ok, raising, save_ok)
                   IN  /\ disk' = [disk EXCEPT !.column_o = r.column_o,
                                      !.ops = IF r.column_o # disk.column_o
                                              THEN @ \cup {"rate_card"} ELSE @]
                       /\ trace' = [trace EXCEPT
                                      !.fallback_attempted = Append(@, "rate_card"),
                                      !.fallback_cycles =
                                          IF r.opened THEN @ + 1 ELSE @,
                                      !.faults = @ + RateFaults(import_ok, env_ok,
                                                         open_ok, raising, save_ok)]
       ELSE UNCHANGED <<disk, trace>>
    /\ pc' = "done"
    /\ UNCHANGED <<args, env, session, excel, mem, results, pending, summary, bench>>

(***************************************************************************)
(* The workflow as a whole                                                 *)
(***************************************************************************)
Next ==
    \/ WrapperCall
    \/ DirectCall
    \/ CdpBegin
    \/ SessionInit
    \/ SessionEnter
    \/ Step1
    \/ Step2
    \/ Step3
    \/ FinalSave
    \/ SessionExit
    \/ CdpReturn
    \/ WrapperConvert
    \/ FbPopulate
    \/ FbResource
    \/ FbRate

Spec == Init /\ [][Next]_vars

(***************************************************************************)
(* Properties of the consolidated session and of its wrapper               *)
(***************************************************************************)
\* the inner operations enabled for consolidated_data_population, in the
\* order of its three steps
EnabledOperations ==
    <<"data_population">>
    \o (IF args.enable_resource_setup THEN <<"resource_setup">> ELSE <<>>)
    \o (IF args.enable_rate_card /\ CdpMargin # None THEN <<"rate_card">> ELSE <<>>)

\* the operations enabled for the independently-sessioned workflow
FallbackOperations ==
    <<"data_population">>
    \o (IF args.enable_resource_setup THEN <<"resource_setup">> ELSE <<>>)
    \o (IF args.enable_rate_card /\ args.client_margin_decimal # None
        THEN <<"rate_card">> ELSE <<>>)

IsPrefix(s, t) == Len(s) <= Len(t) /\ SubSeq(t, 1, Len(s)) = s

\* the three steps of the with block are over
StepsOver ==
    pc \notin {"start", "cdp_begin", "session_init", "session_enter",
               "step1", "step2", "step3"}

\* consolidated_data_population has returned to its caller
CdpReturned == trace.cdp_returns = 1

\* the session was asked for and could not be acquired
NotAcquired ==
    /\ trace.cdp_calls = 1
    /\ ~ trace.opened
    /\ pc \notin {"session_init", "session_enter"}

SucceededIn(key) ==
    /\ results[key] # None
    /\ Get(TheValue(results[key]), "success", FALSE)

\* C1: once the session is open, the enabled inner operations are attempted
\* once each and in the order field population, resource block copy, rate
\* calculation; none is skipped because an earlier one failed.
C1_OperationsAttemptedOnceInOrder ==
    /\ IsPrefix(trace.attempted, EnabledOperations)
    /\ (trace.opened /\ StepsOver) => trace.attempted = EnabledOperations

\* all three operations were attempted although none of them succeeded
C1_Witness ==
    /\ pc = "done"
    /\ trace.opened
    /\ trace.attempted = <<"data_population", "resource_setup", "rate_card">>
    /\ results.operations_completed = 0

\* C2: when the session cannot be acquired, no inner operation of the
\* consolidated path runs, nothing is written or saved through it, and the
\* wrapper has run the independently-sessioned workflow exactly once, with
\* every operation enabled for it, when it returns.
C2_NotAcquiredFallsBackOnce ==
    /\ trace.fallback_runs <= 1
    /\ NotAcquired =>
         /\ trace.attempted = <<>>
         /\ trace.written = {}
         /\ trace.save_calls = 0
         /\ trace.exit_saves = 0
         /\ trace.fallback_runs = 0 => disk.cells = env.cells
         /\ (args.entry = "wrapper" /\ pc = "done") =>
               /\ trace.fallback_runs = 1
               /\ trace.fallback_attempted = FallbackOperations

\* the wrapper has returned after a session that could not be acquired
C2_Witness ==
    /\ args.entry = "wrapper"
    /\ pc = "done"
    /\ NotAcquired
    /\ trace.fallback_runs = 1
    /\ Len(trace.fallback_attempted) = 3

\* C3: whenever the document was opened, on return of
\* consolidated_data_population the session was exited exactly once, the
\* workbook is closed, the application has quit and the session is marked
\* not open.
C3_ClosedOnReturn ==
    (trace.opened /\ CdpReturned) =>
        /\ trace.exit_calls = 1
        /\ ~ excel.book_open
        /\ ~ excel.app_running
        /\ ~ session._is_open

ResultKeys ==
    {"data_population", "resource_setup", "rate_card", "overall_success",
     "execution_time_seconds", "operations_completed", "total_operations",
     "errors"}

\* the call of consolidated_data_population is over
CdpOver ==
    /\ trace.cdp_calls = 1
    /\ pc \in {"convert", "fallback", "fb_resource", "fb_rate", "done"}

\* C5: consolidated_data_population never raises to its caller; once the
\* call is over it has returned one record with data_population,
\* resource_setup, rate_card, overall_success, operations_completed,
\* total_operations, errors and the elapsed time, whatever failed on the way.
C5_AlwaysReturnsOneRecord ==
    /\ ~ trace.cdp_raised
    /\ CdpOver =>
         /\ trace.cdp_returns = 1
         /\ pending = None
         /\ DOMAIN results = ResultKeys
         /\ results.overall_success \in BOOLEAN
         /\ results.operations_completed \in 0..results.total_operations
         /\ results.total_operations = Len(EnabledOperations)
         /\ results.execution_time_seconds > 0
         /\ \A key \in {"data_population", "resource_setup", "rate_card"} :
              results[key] # None => "success" \in DOMAIN TheValue(results[key])

\* the record was returned after the final save had raised
C5_Witness ==
    /\ CdpOver
    /\ trace.final_save = "raised"
    /\ results.errors # <<>>
    /\ results.operations_completed > 0

C7_ConfigurationErrorIsFatal ==
    (/\ args.entry = "wrapper"
     /\ pc = "done"
     /\ trace.cdp_calls = 1
     /\ \/ trace.file_missing
        \/ trace.opened /\ "Pricing Setup" \notin env.sheets) =>
        /\ Len(trace.attempted) <= 1
        /\ results.errors # <<>>
        /\ trace.fallback_runs = 1

\* the block copy got as far as looking for the two blocks and one is missing
DiscoveryFails ==
    /\ trace.block_copy # None
    /\ TheValue(trace.block_copy).copy # None
    /\ LET in == TheValue(TheValue(trace.block_copy).copy).in
       IN  /\ in.xw
           /\ in.open_ok
           /\ in.source_range = None \/ in.target_range = None

\* C8 as stated: with no source block or no target block the copy returns a
\* failure outcome with zero cells copied and the reason, writes no cell and
\* raises nothing.
C8_DiscoveryFailureIsAnOutcome ==
    DiscoveryFails =>
        LET copy == TheValue(TheValue(trace.block_copy).copy)
        IN  /\ copy.raised = None
            /\ copy.value # None
            /\ ~ TheValue(copy.value).success
            /\ TheValue(copy.value).cells_copied = 0
            /\ TheValue(copy.value).error_messages # <<>>
            /\ copy.after = copy.before

\* C8, amended: with no source block or no target block
\* copy_resource_setup_range raises ResourceSetupError carrying the reason;
\* populate_resource_setup_data catches it and returns None, so no outcome
\* record reaches the workflow; no cell of the target is written and
\* nothing is raised out of populate_resource_setup_data.
C8_DiscoveryFailureRaisesInside ==
    DiscoveryFails =>
        LET call == TheValue(trace.block_copy)
            copy == TheValue(call.copy)
        IN  /\ copy.raised # None
            /\ copy.value = None
            /\ call.returned = None
            /\ call.raised = None
            /\ copy.after = copy.before
            /\ disk.block = copy.before

\* a block copy that found no source block, after which the workflow went on
C8_Witness ==
    /\ DiscoveryFails
    /\ env.source_range = None
    /\ TheValue(trace.block_copy).returned = None
    /\ pc = "done"

\* C9: when consolidated_data_population and its wrapper return, either
\* every enabled operation succeeded and the writes are saved, or the saved
\* document holds no write of any operation.
C9_AllOrNothing ==
    (CdpReturned /\ trace.fallback_runs = 0 /\ pc \in {"convert", "done"}) =>
        \/ /\ results.operations_completed = results.total_operations
           /\ disk = mem
        \/ /\ disk.cells = env.cells
           /\ disk.block = <<>>
           /\ disk.column_o = EmptyColumn

(***************************************************************************)
(* The matcher on its own: find_matching_fields_in_worksheet called on a   *)
(* worksheet and a set of source fields                                    *)
(***************************************************************************)
\* rows of the worksheets the matcher is run on
BenchRows == 2

BenchGrid == (1..BenchRows) \X {PRICING_SETUP_OUTPUT_FIELD_COL_IDX,
                                PRICING_SETUP_OUTPUT_VALUE_COL_IDX}

\* what a cell of the label column and a cell of the value column may hold
BenchLabels == { <<>>, LabelA, <<"B", "d", "x">>, <<"x", "y", "z">> }
BenchValues == { <<>>, <<"a", "b", "c", " ">> }

GridWorksheets ==
    { [name |-> n, cells |-> c] :
        n \in {"Pricing Setup", "Sheet1"},
        c \in { f \in [BenchGrid -> BenchLabels \cup BenchValues] :
                  \A rc \in BenchGrid :
                     f[rc] \in (IF rc[2] = PRICING_SETUP_OUTPUT_FIELD_COL_IDX
                                THEN BenchLabels ELSE BenchValues) } }

\* a sheet whose only text is a label in A1, outside the two columns
LabelOutsideCells ==
    [rc \in BenchGrid \cup {<<1, 1>>} |-> IF rc = <<1, 1>> THEN LabelA ELSE <<>>]

BenchWorksheets ==
    GridWorksheets
        \cup { [name |-> n, cells |-> LabelOutsideCells] :
                 n \in {"Pricing Setup", "Sheet1"} }

BenchSources ==
    { << <<FieldA, <<"v", "1">>>> >>,
      << <<FieldB, <<"v", "2">>>>, <<FieldA, <<"v", "1">>>> >> }

BenchThresholds ==
    { ZeroScore, [num |-> 13, den |-> 20], [num |-> 2, den |-> 3],
      DefaultThreshold, [num |-> 1, den |-> 1] }

MatchInit ==
    /\ pc = "bench"
    /\ args = [entry |-> "bench"]
    /\ env = [sheets |-> {}]
    /\ session = InitialSession
    /\ excel = [app_running |-> FALSE, book_open |-> FALSE]
    /\ mem = [ops |-> {}]
    /\ disk = [ops |-> {}]
    /\ results = InitialResults
    /\ pending = None
    /\ summary = None
    /\ trace = InitialTrace
    /\ bench \in [stage : {"input"}, source_fields : BenchSources,
                  worksheet : BenchWorksheets, threshold : BenchThresholds,
                  matches : {<<>>}]

\* one call of find_matching_fields_in_worksheet
MatchRun ==
    /\ pc = "bench"
    /\ bench.stage = "input"
    /\ bench' = [bench EXCEPT
                   !.stage = "matched",
                   !.matches = find_matching_fields_in_worksheet(
                                   bench.source_fields, bench.worksheet,
                                   bench.threshold)]
    /\ UNCHANGED <<pc, args, env, session, excel, mem, disk, results, pending,
                   summary, trace>>

\* one call of find_matching_fields on the same sheet read with openpyxl
MatchRunOpenpyxl ==
    /\ pc = "bench"
    /\ bench.stage = "input"
    /\ bench' = [bench EXCEPT
                   !.stage = "matched_openpyxl",
                   !.matches = find_matching_fields(
                                   bench.source_fields, bench.worksheet,
                                   bench.threshold)]
    /\ UNCHANGED <<pc, args, env, session, excel, mem, disk, results, pending,
                   summary, trace>>

\* _populate_data_in_session after the match: the matches found on the
\* "Pricing Setup" sheet are written by populate_fields_in_worksheet
MatchPopulate ==
    /\ pc = "bench"
    /\ bench.stage = "matched"
    /\ bench.worksheet.name = "Pricing Setup"
    /\ \E outcomes \in [DOMAIN bench.matches -> WriteOutcomes] :
         bench' = [bench EXCEPT
                     !.stage = "populated",
                     !.matches =
                         [result |-> populate_fields_in_worksheet(
                                         bench.worksheet.cells, bench.matches,
                                         outcomes),
                          written |-> bench.matches,
                          outcomes |-> outcomes]]
    /\ UNCHANGED <<pc, args, env, session, excel, mem, disk, results, pending,
                   summary, trace>>

MatchNext == MatchRun \/ MatchRunOpenpyxl \/ MatchPopulate

MatchSpec == MatchInit /\ [][MatchNext]_vars

\* the candidates of the worksheet of the bench, in scan order
BenchCandidates == PotentialLocations(bench.worksheet)

\* the scores of the candidates for a source field, in scan order
BenchScores(source_field, candidates) ==
    SubSeq([k \in DOMAIN candidates |->
               core_string_match(source_field, candidates[k].content)],
           1, Len(candidates))

\* the candidates that attain the maximum score
Maxima(scores) ==
    { k \in DOMAIN scores : \A j \in DOMAIN scores : ScoreGE(scores[k], scores[j]) }

\* smallest element of a non-empty set of numbers
Least(S) == CHOOSE k \in S : \A j \in S : k <= j

\* the matches returned for a source field
MatchesOf(source_field) ==
    SelectSeq(bench.matches, LAMBDA m : m.source_field = source_field)

\* the only match returned for the field is the earliest candidate of the set
OnlyMatchIsEarliest(source_field, candidates, chosen) ==
    /\ Len(MatchesOf(source_field)) = 1
    /\ MatchesOf(source_field)[1].target_location = candidates[Least(chosen)]

\* C10 as stated: for each source field whose maximum score is >= the
\* threshold, the match is the first candidate in scan order among those
\* attaining the maximum.
C10_FirstOfTheBestIsSelected ==
    bench.stage = "matched" =>
        LET candidates == BenchCandidates
        IN  \A i \in DOMAIN bench.source_fields :
              LET source_field == bench.source_fields[i][1]
                  scores == BenchScores(source_field, candidates)
                  best == Maxima(scores)
              IN  (best # {} /\ ScoreGE(scores[Least(best)], bench.threshold))
                      => OnlyMatchIsEarliest(source_field, candidates, best)

\* C10, amended: for each source field whose maximum score is >= the
\* threshold and greater than zero, the match is the first candidate in
\* scan order (row-major, label column before value column) among those
\* attaining the maximum, so among equal scores the earlier-scanned wins;
\* a field whose maximum is below the threshold or zero gets no match.
C10_FirstOfTheBestAboveZeroIsSelected ==
    bench.stage = "matched" =>
        LET candidates == BenchCandidates
        IN  \A i \in DOMAIN bench.source_fields :
              LET source_field == bench.source_fields[i][1]
                  scores == BenchScores(source_field, candidates)
                  best == Maxima(scores)
              IN  IF /\ best # {}
                     /\ ScoreGE(scores[Least(best)], bench.threshold)
                     /\ ScoreGT(scores[Least(best)], ZeroScore)
                  THEN OnlyMatchIsEarliest(source_field, candidates, best)
                  ELSE MatchesOf(source_field) = <<>>

\* two candidates tie at the maximum score and the earlier one is the match
C10_Witness ==
    /\ bench.stage = "matched"
    /\ LET candidates == BenchCandidates
           source_field == bench.source_fields[1][1]
           best == Maxima(BenchScores(source_field, candidates))
       IN  /\ Cardinality(best) >= 2
           /\ OnlyMatchIsEarliest(source_field, candidates, best)

\* the candidates the call of the bench scored, in scan order
CandidatesOfCall ==
    IF bench.stage = "matched" THEN PotentialLocations(bench.worksheet)
    ELSE TargetLocations(bench.worksheet)

\* does some candidate score >= the threshold (and, if asked, more than 0.0)
Qualifies(source_field, candidates, above_zero) ==
    \E k \in DOMAIN candidates :
        LET score == core_string_match(source_field, candidates[k].content)
        IN  /\ ScoreGE(score, bench.threshold)
            /\ above_zero => ScoreGT(score, ZeroScore)

\* C11 as stated: a source field gets exactly one match if at least one
\* candidate scores >= the threshold, and none otherwise.
C11_OneMatchIffSomeCandidateReaches ==
    bench.stage \in {"matched", "matched_openpyxl"} =>
        LET candidates == CandidatesOfCall
        IN  \A i \in DOMAIN bench.source_fields :
              LET source_field == bench.source_fields[i][1]
              IN  Len(MatchesOf(source_field))
                    = (IF Qualifies(source_field, candidates, FALSE) THEN 1 ELSE 0)

\* C11, amended: a source field gets exactly one match if at least one
\* candidate scores >= the threshold and more than 0.0, and none otherwise;
\* the match scores >= the threshold, so a score equal to the threshold is
\* accepted and a lower one rejected; the other fields are matched whether
\* or not this one is.
C11_OneMatchIffSomeCandidateReachesAboveZero ==
    bench.stage \in {"matched", "matched_openpyxl"} =>
        LET candidates == CandidatesOfCall
        IN  /\ \A i \in DOMAIN bench.source_fields :
                  LET source_field == bench.source_fields[i][1]
                  IN  Len(MatchesOf(source_field))
                        = (IF Qualifies(source_field, candidates, TRUE) THEN 1 ELSE 0)
            /\ \A j \in DOMAIN bench.matches :
                  /\ ScoreGE(bench.matches[j].confidence, bench.threshold)
                  /\ bench.matches[j].confidence
                        = core_string_match(bench.matches[j].source_field,
                                            bench.matches[j].target_location.content)

\* a field matched with a score equal to the threshold, below 1, next to a
\* field of the same call that got no match
C11_Witness ==
    /\ bench.stage \in {"matched", "matched_openpyxl"}
    /\ Len(bench.source_fields) = 2
    /\ Len(bench.matches) = 1
    /\ ScoreGE(bench.threshold, bench.matches[1].confidence)
    /\ ScoreGT([num |-> 1, den |-> 1], bench.threshold)

(***************************************************************************)
(* Function bench: each function of the engine is called once on arguments *)
(* drawn from bounded sets.  A call is a record [kind, ...arguments]; the   *)
(* state after the call holds the call and what the function returned.     *)
(***************************************************************************)
\* the calls of the three population writers: a sheet with the label of
\* "abc" in E1 and a value in F2, batches of a match on the label cell E1 and
\* a match on the value cell F2, and what the platform answers
PopulateCalls ==
    LET UnitCells == [CellsA EXCEPT ![<<2, 6>>] = <<"o", "l", "d">>]
        UnitMatchE == FieldMatch(FieldA, CellLocation(1, 5, LabelA),
                                 [num |-> 1, den |-> 1], <<"v", "1">>)
        UnitMatchF == FieldMatch(FieldB, CellLocation(2, 6, <<"o", "l", "d">>),
                                 DefaultThreshold, <<"v", "2">>)
        UnitMatchLists ==
            { <<>>, <<UnitMatchE>>, <<UnitMatchF>>, <<UnitMatchE, UnitMatchF>>,
              <<UnitMatchF, UnitMatchE>> }
    IN  UNION { [kind : {"populate"}, cells : {UnitCells},
                 sheets : {{"Pricing Setup"}, {"Sheet1"}},
                 matches : {matches},
                 outcomes : [DOMAIN matches -> WriteOutcomes],
                 open_ok : BOOLEAN, save_ok : BOOLEAN] :
                matches \in UnitMatchLists }

\* the longest text given to the normalizer
UnitTextLen == 3

\* a letter (also the first of the prefix "a."), a digit, the two kinds of
\* decoration and a blank
UnitAlphabet == {"a", "1", ".", "*", " "}

\* a numeric and a single-letter enumerator, and a label that has neither
EnumeratorPrefixes == { <<"1", ".">>, <<"a", ".">> }

PlainLabel == <<"x", "y">>

NormalizeCalls ==
    [kind : {"normalize"},
     field_name : UNION { [1..n -> UnitAlphabet] : n \in 0..UnitTextLen }
                    \cup { first \o second \o PlainLabel :
                             first \in EnumeratorPrefixes,
                             second \in EnumeratorPrefixes }]

\* pairs of labels compared by the similarity score
SimilarityCalls ==
    LET SimilarityTexts ==
            { <<>>, FieldA, LabelA, <<"t", "i", "d", "e">>,
              <<"d", "i", "e", "t">>, <<"D", "i", "e", "t", ":">> }
    IN  [kind : {"similarity"}, source_field : SimilarityTexts,
         target_field : SimilarityTexts]

\* the largest of the small standard cost rates
UnitMaxCost == 4

\* standard cost rates: not positive, small, and those of the examples;
\* client margins in percent: negative, 0, inside the range, 100 and above
RateCalls ==
    [kind : {"rate"},
     standard_cost_rate : (-1..UnitMaxCost) \cup {100, 120},
     margin_percent : {-5, 0, 20, 45, 50, 60, 99, 100, 150}]

\* rows of column Q that hold something in a batch
UnitRateRows == 3

\* column Q with every choice of cells in its first rows, column O holding
\* an earlier "$1" in every row
RateBatchCalls ==
    LET RateCellSamples ==
            {EmptyCell, NumberCell(100), NumberCell(120), NumberCell(0),
             TextCell("n/a")}
        UnitColumnsQ ==
            { [i \in 1..RateRowCount |->
                  IF i \in DOMAIN head THEN head[i] ELSE EmptyCell] :
                head \in [1..UnitRateRows -> RateCellSamples] }
        UnitColumnO == [i \in 1..RateRowCount |-> CurrencyCell(1)]
    IN  [kind : {"rate_batch"}, column_q : UnitColumnsQ, column_o : {UnitColumnO},
         margin_percent : {45, 100}, raising : {{}, {1}, {UnitRateRows}}]

\* user-supplied mappings: none, an override, an override with an addition,
\* an addition; constants: none, one name, two names
MergeCalls ==
    [kind : {"merge"},
     cli_data : { <<>>, << <<FieldA, <<"4", "5">>>> >>,
                  << <<FieldA, <<"4", "5">>>>, <<LabelA, <<"z">>>> >>,
                  << <<FieldB, <<"x">>>> >> },
     constants_data : { <<>>, ConstantsA, ConstantsAB }]

\* source sheets: the resource table from column C, from column B, near the
\* top of the sheet, and no table; target sheets: empty, placeholders in
\* column B, column B in use, and everything in use
CopyCalls ==
    LET Fill(rows, columns, text) == [c \in rows \X columns |-> text]
        Table(rows, first) ==
            Fill(rows, {first}, "manager") @@ Fill(rows, (first + 1)..8, "x")
    IN  [kind : {"copy"},
         source_sheet : { Table(28..34, 3), Table(28..34, 2),
                          Fill(3..9, {1}, "consultant"), <<>> },
         target_sheet : { <<>>, Fill(28..34, {2}, "Group 1"),
                          Fill(28..34, {2}, "x"), Fill(20..110, 1..8, "x") }]

UnitCalls ==
    PopulateCalls \cup NormalizeCalls \cup SimilarityCalls \cup RateCalls
        \cup RateBatchCalls \cup MergeCalls \cup CopyCalls

Returned(function, out) ==
    [kind |-> "returned", function |-> function, call |-> bench, out |-> out]

UnitFrame ==
    UNCHANGED <<pc, args, env, session, excel, mem, disk, results, pending,
                summary, trace>>

UnitInit ==
    /\ pc = "bench"
    /\ args = [entry |-> "bench"]
    /\ env = [sheets |-> {}]
    /\ session = InitialSession
    /\ excel = [app_running |-> FALSE, book_open |-> FALSE]
    /\ mem = [ops |-> {}]
    /\ disk = [ops |-> {}]
    /\ results = InitialResults
    /\ pending = None
    /\ summary = None
    /\ trace = InitialTrace
    /\ bench \in UnitCalls

CallInSession ==
    /\ bench.kind = "populate"
    /\ bench' = Returned("populate_fields_in_worksheet",
                    populate_fields_in_worksheet(bench.cells, bench.matches,
                                                 bench.outcomes))
    /\ UnitFrame

CallXlwings ==
    /\ bench.kind = "populate"
    /\ bench' = Returned("populate_matched_fields_xlwings",
                    populate_matched_fields_xlwings(
                        bench.cells, bench.sheets, bench.matches, bench.outcomes,
                        bench.open_ok, bench.save_ok))
    /\ UnitFrame

CallOpenpyxl ==
    /\ bench.kind = "populate"
    /\ bench' = Returned("populate_matched_fields",
                    populate_matched_fields(
                        bench.cells, bench.sheets, bench.matches, bench.outcomes,
                        bench.open_ok, bench.save_ok))
    /\ UnitFrame

\* normalize_field_name, and normalize_field_name on what it returned
CallNormalize ==
    /\ bench.kind = "normalize"
    /\ bench' = Returned("normalize_field_name",
                    [once |-> normalize_field_name(bench.field_name),
                     twice |-> normalize_field_name(
                                   normalize_field_name(bench.field_name))])
    /\ UnitFrame

\* core_string_match, and core_string_match with the arguments exchanged
CallSimilarity ==
    /\ bench.kind = "similarity"
    /\ bench' = Returned("core_string_match",
                    [forward |-> core_string_match(bench.source_field,
                                                   bench.target_field),
                     backward |-> core_string_match(bench.target_field,
                                                    bench.source_field)])
    /\ UnitFrame

CallRate ==
    /\ bench.kind = "rate"
    /\ bench' = Returned("calculate_engineering_rate",
                    calculate_engineering_rate(bench.standard_cost_rate,
                                               bench.margin_percent))
    /\ UnitFrame

\* the batch: read column Q, calculate, write column O
CallRateBatch ==
    /\ bench.kind = "rate_batch"
    /\ LET standard_rates == read_standard_cost_rates(bench.column_q)
           calculation_result ==
               calculate_engineering_rates(standard_rates, bench.margin_percent)
           write_result ==
               write_engineering_rates(bench.column_o,
                   calculation_result.calculated_rates, bench.raising)
       IN  bench' = Returned("write_engineering_rates",
                       [standard_rates |-> standard_rates,
                        calculation_result |-> calculation_result,
                        write_result |-> write_result])
    /\ UnitFrame

\* copy_resource_setup_range on two workbooks that open and save: the block
\* it finds in the source, the area it finds in the target, and the target
\* sheet afterwards
CallCopy ==
    /\ bench.kind = "copy"
    /\ LET source_range == find_source_resource_data(bench.source_sheet)
           target_range == find_target_editable_area(bench.target_sheet)
           source_data == IF source_range = None THEN <<>>
                          ELSE RangeValue(bench.source_sheet, TheValue(source_range))
           copy == copy_resource_setup_range(
                       [xw |-> TRUE, open_ok |-> TRUE, save_ok |-> TRUE,
                        source_range |-> source_range,
                        target_range |-> target_range,
                        source_data |-> source_data], <<>>)
       IN  bench' = Returned("copy_resource_setup_range",
                       [copy |-> copy,
                        target_sheet |->
                            IF copy.raised = None /\ TheValue(copy.value).success
                            THEN RangeWrite(bench.target_sheet,
                                            TheValue(target_range), source_data)
                            ELSE bench.target_sheet])
    /\ UnitFrame

\* the rate card of one sheet twice: by the file-based function on a
\* document that opens and saves, and by the in-session function
CallRateCard ==
    /\ bench.kind = "rate_batch"
    /\ bench' = Returned("calculate_rate_card_in_worksheet",
                    [file_based |->
                         perform_rate_card_calculation({"Resource Setup"},
                             bench.column_q, bench.column_o, bench.margin_percent,
                             TRUE, TRUE, bench.raising, TRUE),
                     in_session |->
                         calculate_rate_card_in_worksheet(bench.column_q,
                             bench.column_o, bench.margin_percent, bench.raising)])
    /\ UnitFrame

\* merge_cli_with_constants works on copies: the two mappings it was given
\* are afterwards what they were
CallMerge ==
    /\ bench.kind = "merge"
    /\ bench' = Returned("merge_cli_with_constants",
                    [merged_data |-> merge_cli_with_constants(
                                         bench.cli_data, bench.constants_data),
                     cli_data |-> bench.cli_data,
                     constants_data |-> bench.constants_data])
    /\ UnitFrame

\* the merge of _populate_data_in_session builds a new dict or passes the
\* constants on
CallMergeInSession ==
    /\ bench.kind = "merge"
    /\ bench' = Returned("_populate_data_in_session",
                    [merged_data |-> MergeInSession(bench.constants_data,
                                                    bench.cli_data),
                     cli_data |-> bench.cli_data,
                     constants_data |-> bench.constants_data])
    /\ UnitFrame

UnitNext ==
    \/ CallMerge
    \/ CallMergeInSession
    \/ CallRate
    \/ CallRateBatch
    \/ CallInSession
    \/ CallXlwings
    \/ CallOpenpyxl
    \/ CallNormalize
    \/ CallSimilarity
    \/ CallCopy
    \/ CallRateCard

UnitSpec == UnitInit /\ [][UnitNext]_vars

PopulationWriters ==
    {"populate_fields_in_worksheet", "populate_matched_fields_xlwings",
     "populate_matched_fields"}

PopulationReturned == bench.kind = "returned" /\ bench.function \in PopulationWriters

\* C12: every population call counts each match of the batch once, as
\* succeeded or as failed: successful_fields + failed_fields = total_fields
\* = the number of matches passed in, also when an earlier match fails
\* verification or raises.
C12_CountsAddUp ==
    PopulationReturned =>
        /\ bench.out.total_fields = Len(bench.call.matches)
        /\ bench.out.successful_fields + bench.out.failed_fields
             = bench.out.total_fields

\* a batch of two whose first write raises and whose second succeeds
C12_Witness ==
    /\ PopulationReturned
    /\ bench.function # "populate_matched_fields"
    /\ Len(bench.call.matches) = 2
    /\ bench.call.outcomes[1] = "raise"
    /\ bench.out.successful_fields = 1
    /\ bench.out.failed_fields = 1

\* C13: every population writer writes a match on a label cell (column E)
\* to the value cell (column F) of the same row and any other match to the
\* matched cell; the matched label cell is never overwritten.
C13_LabelIsNeverOverwritten ==
    PopulationReturned =>
        /\ bench.out.written
             \subseteq { TargetCellOf(bench.call.matches[k].target_location) :
                           k \in DOMAIN bench.call.matches }
        /\ \A k \in DOMAIN bench.call.matches :
              LET location == bench.call.matches[k].target_location
                  cell == <<location.row, location.column>>
              IN  location.column = PRICING_SETUP_OUTPUT_FIELD_COL_IDX
                    => bench.out.cells[cell] = bench.call.cells[cell]

\* C14: normalize_field_name is idempotent: normalizing what it returned
\* gives the same text, for every input, the empty text included.
C14_NormalizeIsIdempotent ==
    (bench.kind = "returned" /\ bench.function = "normalize_field_name")
        => bench.out.twice = bench.out.once

\* C15: the similarity score is symmetric: core_string_match(a, b) equals
\* core_string_match(b, a) for all labels a and b.
C15_SimilarityIsSymmetric ==
    (bench.kind = "returned" /\ bench.function = "core_string_match")
        => /\ ScoreGE(bench.out.forward, bench.out.backward)
           /\ ScoreGE(bench.out.backward, bench.out.forward)

Abs(n) == IF n < 0 THEN 0 - n ELSE n

C17_RowsStayAligned ==
    (bench.kind = "returned" /\ bench.function = "write_engineering_rates") =>
        LET standard_rates == bench.out.standard_rates
            rates == bench.out.calculation_result.calculated_rates
            before == bench.call.column_o
            after == bench.out.write_result.column_o
            rows_written ==
                { rates[k].row_index :
                    k \in {j \in DOMAIN rates :
                             rates[j].is_valid /\ j \notin bench.call.raising} }
        IN  /\ Len(rates) = Len(standard_rates)
            /\ \A k \in DOMAIN rates :
                  /\ rates[k].row_index = standard_rates[k].row_index
                  /\ ~ standard_rates[k].is_valid =>
                        /\ ~ rates[k].is_valid
                        /\ rates[k].engineering_rate = None
                        /\ rates[k].error_message = standard_rates[k].error_message
                  /\ (rates[k].is_valid /\ k \notin bench.call.raising) =>
                        after[rates[k].row_index]
                          = CurrencyCell(TheValue(rates[k].engineering_rate))
            /\ \A row \in DOMAIN before :
                  row \notin rows_written => after[row] = before[row]

\* rates 100, empty, 120 at margin 0.45: 182 in the first row, the second
\* row skipped as "Empty cell" and left alone, 218 in the third row
C17_Witness ==
    /\ bench.kind = "returned"
    /\ bench.function = "write_engineering_rates"
    /\ bench.call.raising = {}
    /\ bench.call.margin_percent = 45
    /\ bench.call.column_q[1] = NumberCell(100)
    /\ bench.call.column_q[2] = EmptyCell
    /\ bench.call.column_q[3] = NumberCell(120)
    /\ bench.out.calculation_result.calculated_rates[2].error_message = "Empty cell"
    /\ bench.out.write_result.column_o[1] = CurrencyCell(182)
    /\ bench.out.write_result.column_o[2] = bench.call.column_o[2]
    /\ bench.out.write_result.column_o[3] = CurrencyCell(218)

Attempted(operations, name) == \E k \in DOMAIN operations : operations[k] = name

\* C18: in the consolidated-session wrapper and in the independently-
\* sessioned workflow alike, the rate card operation is attempted only if
\* rate card is enabled and a client margin was given, and is attempted
\* then; without a margin nothing is written to the derived-rate column.
C18_RateCardNeedsMargin ==
    LET requested == args.enable_rate_card /\ args.client_margin_decimal # None
    IN  /\ Attempted(trace.attempted, "rate_card") => requested
        /\ Attempted(trace.fallback_attempted, "rate_card") => requested
        /\ (trace.opened /\ StepsOver /\ requested)
              => Attempted(trace.attempted, "rate_card")
        /\ ~ requested => (mem.column_o = EmptyColumn /\ disk.column_o = EmptyColumn)

MergeReturned ==
    /\ bench.kind = "returned"
    /\ bench.function \in {"merge_cli_with_constants", "_populate_data_in_session"}

\* C19: the merge of the two field sources is later-source-wins: a name in
\* both mappings gets the user-supplied value, a name in one mapping keeps
\* that mapping's value, the merged names are exactly the union of both
\* name sets, and neither mapping given is modified.
C19_LaterSourceWins ==
    MergeReturned =>
        LET cli_data == bench.call.cli_data
            constants_data == bench.call.constants_data
            merged_data == bench.out.merged_data
        IN  /\ Keys(merged_data) = Keys(cli_data) \cup Keys(constants_data)
            /\ Len(merged_data) = Cardinality(Keys(merged_data))
            /\ \A name \in Keys(cli_data) :
                  DictGet(merged_data, name) = DictGet(cli_data, name)
            /\ \A name \in Keys(constants_data) \ Keys(cli_data) :
                  DictGet(merged_data, name) = DictGet(constants_data, name)
            /\ bench.out.cli_data = cli_data
            /\ bench.out.constants_data = constants_data

\* a name of both mappings came out with the user's value next to a name
\* that only the constants hold
C19_Witness ==
    /\ MergeReturned
    /\ bench.call.constants_data = ConstantsAB
    /\ FieldA \in Keys(bench.call.cli_data)
    /\ DictGet(bench.out.merged_data, FieldA) = <<"4", "5">>
    /\ DictGet(bench.out.merged_data, FieldB) = <<"v", "2">>

\* the sub-result of an inner operation that ended in its exception handler
FailedWithException(sub_result) ==
    /\ sub_result # None
    /\ "error" \in DOMAIN TheValue(sub_result)
    /\ TheValue(sub_result).error[2] # ""

SomeOperationFailedWithException ==
    \/ FailedWithException(results.data_population)
    \/ FailedWithException(results.resource_setup)
    \/ FailedWithException(results.rate_card)

\* C20: when an inner operation of the consolidated session fails with an
\* exception, the errors list of the result consolidated_data_population
\* returns holds a message about it, and so does the errors list of the
\* summary the wrapper returns.
C20_ExceptionIsRecordedInErrors ==
    (CdpReturned /\ SomeOperationFailedWithException) =>
        /\ results.errors # <<>>
        /\ summary # None => TheValue(summary).errors # <<>>

\* the call went through its loop over the matches and kept what it wrote
LoopCompleted ==
    /\ PopulationReturned
    /\ bench.call.matches # <<>>
    /\ \/ bench.function = "populate_fields_in_worksheet"
       \/ bench.out.saved

\* C21: a match whose read-back differs from the value written adds one to
\* the failed count and a diagnostic naming its field to the error list; a
\* match whose read-back equals the value adds one to the succeeded count
\* and no diagnostic.
C21_MismatchIsDiagnosed ==
    LoopCompleted =>
        LET outcomes == bench.call.outcomes
            matches == bench.call.matches
            named == { bench.out.error_messages[i][3] :
                         i \in DOMAIN bench.out.error_messages }
        IN  /\ bench.out.successful_fields
                 = Cardinality({k \in DOMAIN outcomes : outcomes[k] = "ok"})
            /\ bench.out.failed_fields
                 = Cardinality({k \in DOMAIN outcomes : outcomes[k] # "ok"})
            /\ \A k \in DOMAIN outcomes :
                  /\ outcomes[k] = "mismatch" => matches[k].source_field \in named
                  /\ outcomes[k] = "ok" => matches[k].source_field \notin named

\* the matches of a populated bench, all written and read back as written
PopulatedAllOk ==
    /\ bench.stage = "populated"
    /\ \A k \in DOMAIN bench.matches.outcomes : bench.matches.outcomes[k] = "ok"

\* C22: source fields that match the same candidate location are all kept:
\* each field with a qualifying candidate has its match, the writer counts
\* each as succeeded, and after the call a target cell holds the value of
\* the last match of the list written to it.
C22_LastWriterWins ==
    PopulatedAllOk =>
        LET written == bench.matches.written
            result == bench.matches.result
            candidates == PotentialLocations(bench.worksheet)
        IN  /\ \A i \in DOMAIN bench.source_fields :
                  Qualifies(bench.source_fields[i][1], candidates, TRUE)
                    => \E k \in DOMAIN written :
                          written[k].source_field = bench.source_fields[i][1]
            /\ result.successful_fields = Len(written)
            /\ result.failed_fields = 0
            /\ \A k \in DOMAIN written :
                  LET target == TargetCellOf(written[k].target_location)
                      later == { j \in DOMAIN written :
                                   /\ j > k
                                   /\ TargetCellOf(written[j].target_location) = target }
                  IN  later = {} => result.cells[target] = written[k].source_value

\* two fields matched the same label cell and the value cell beside it
\* holds the value of the second
C22_Witness ==
    /\ PopulatedAllOk
    /\ Len(bench.matches.written) = 2
    /\ bench.matches.written[1].target_location
         = bench.matches.written[2].target_location
    /\ bench.matches.written[1].source_value # bench.matches.written[2].source_value
    /\ bench.matches.result.cells[
           TargetCellOf(bench.matches.written[2].target_location)]
         = bench.matches.written[2].source_value
    /\ bench.matches.result.successful_fields = 2

\* the candidates of the call as C23 describes them: the generic window,
\* filtered by the qualification rule, for an unrecognized sheet and for a
\* recognized sheet whose two-column scan finds nothing
ClaimedCandidates ==
    LET cells == bench.worksheet.cells
        in_session == bench.stage = "matched"
        optimized == IF in_session
                     THEN scan_worksheet_for_pricing_setup_fields_xlwings(cells)
                     ELSE scan_worksheet_for_pricing_setup_fields(cells)
        rows == IF in_session THEN GenericScanRows ELSE FieldScanRows
        generic == SelectSeq(
                       ScannedLocations(cells,
                           ScanOrder(rows, [c \in 1..GenericScanCols |-> c])),
                       LAMBDA loc : _is_potential_field_name(loc.content))
    IN  IF bench.worksheet.name \notin PricingSetupSheetNames \/ optimized = <<>>
        THEN generic
        ELSE optimized

\* C23: the generic scan is used for an unrecognized sheet and for a
\* recognized sheet whose optimized two-column scan returns no candidate,
\* and a cell qualifies in the generic scan under the same rule as in the
\* optimized scan; the matches are those found among these candidates.
C23_GenericScanWhenUnknownOrEmpty ==
    bench.stage \in {"matched", "matched_openpyxl"} =>
        bench.matches
          = MatchAllFields(bench.source_fields, ClaimedCandidates, bench.threshold)


(***************************************************************************)
(* One ExcelSessionManager used directly: entered, asked for worksheets,   *)
(* saved, left, and entered again.  A workbook handle is the number of the *)
(* opening that produced it (0 for None), a worksheet handle is the name   *)
(* of the sheet with the handle of its workbook.                           *)
(***************************************************************************)
\* the openings of the document one manager is taken through
MaxOpens == 3

\* the sheets of the document, and a name it has no sheet for
WorkbookSheets == {"Pricing Setup", "Rate Card"}

RequestedNames == WorkbookSheets \cup {"Summary"}

\* what a call of the manager gave: raised tells that it left with
\* ExcelSessionError, workbook is the workbook of the handle it returned
CallOutcome(call, name, raised, workbook) ==
    [call |-> call, name |-> name, raised |-> raised, workbook |-> workbook]

\* ExcelSessionManager.__init__: no application, no workbook, an empty cache
InitialManager ==
    [kind |-> "manager", app |-> 0, workbook |-> 0, worksheets |-> <<>>,
     _is_open |-> FALSE, opens |-> 0,
     last |-> CallOutcome("__init__", "", FALSE, 0)]

ManagerInit ==
    /\ pc = "bench"
    /\ args = [entry |-> "bench"]
    /\ env = [sheets |-> WorkbookSheets]
    /\ session = InitialSession
    /\ excel = [app_running |-> FALSE, book_open |-> FALSE]
    /\ mem = [ops |-> {}]
    /\ disk = [ops |-> {}]
    /\ results = InitialResults
    /\ pending = None
    /\ summary = None
    /\ trace = InitialTrace
    /\ bench = InitialManager

\* __enter__: a new application and a new workbook handle, _is_open; when
\* the opening raises, the handles are what the statements reached left
ManagerEnter ==
    /\ bench.opens < MaxOpens
    /\ \E app_ok \in BOOLEAN, open_ok \in BOOLEAN :
         bench' = IF app_ok /\ open_ok
                  THEN [bench EXCEPT !.app = bench.opens + 1,
                                     !.workbook = bench.opens + 1,
                                     !._is_open = TRUE,
                                     !.opens = @ + 1,
                                     !.last = CallOutcome("__enter__", "", FALSE, 0)]
                  ELSE [bench EXCEPT !.app = IF app_ok THEN bench.opens + 1 ELSE @,
                                     !.opens = @ + 1,
                                     !.last = CallOutcome("__enter__", "", TRUE, 0)]
    /\ UnitFrame

\* __exit__: whatever save, close and quit do, _is_open = False; app,
\* workbook and worksheets are left as they are
ManagerExit ==
    /\ bench.opens > 0
    /\ bench' = [bench EXCEPT !._is_open = FALSE,
                              !.last = CallOutcome("__exit__", "", FALSE, 0)]
    /\ UnitFrame

\* get_worksheet(name)
ManagerGetWorksheet ==
    /\ \E name \in RequestedNames :
         bench' =
            IF ~ bench._is_open
            THEN [bench EXCEPT !.last = CallOutcome("get_worksheet", name, TRUE, 0)]
            ELSE IF name \in Keys(bench.worksheets)
            THEN [bench EXCEPT !.last =
                     CallOutcome("get_worksheet", name, FALSE,
                                 DictGet(bench.worksheets, name))]
            ELSE IF name \notin WorkbookSheets
            THEN [bench EXCEPT !.last = CallOutcome("get_worksheet", name, TRUE, 0)]
            ELSE [bench EXCEPT !.worksheets = DictSet(@, name, bench.workbook),
                               !.last = CallOutcome("get_worksheet", name, FALSE,
                                                    bench.workbook)]
    /\ UnitFrame

\* save(): raises when the session is not open or the workbook cannot save
ManagerSave ==
    /\ \E save_ok \in BOOLEAN :
         bench' = [bench EXCEPT !.last =
                      CallOutcome("save", "", ~ (bench._is_open /\ save_ok), 0)]
    /\ UnitFrame

\* get_workbook()
ManagerGetWorkbook ==
    /\ bench' = [bench EXCEPT !.last =
                    IF bench._is_open
                    THEN CallOutcome("get_workbook", "", FALSE, bench.workbook)
                    ELSE CallOutcome("get_workbook", "", TRUE, 0)]
    /\ UnitFrame

ManagerNext ==
    \/ ManagerEnter
    \/ ManagerExit
    \/ ManagerGetWorksheet
    \/ ManagerSave
    \/ ManagerGetWorkbook

ManagerSpec == ManagerInit /\ [][ManagerNext]_vars

(***************************************************************************)
(* The block copy of the resource table                                    *)
(***************************************************************************)
\* a block copy that returned success
CopySucceeded ==
    /\ bench.kind = "returned"
    /\ bench.function = "copy_resource_setup_range"
    /\ bench.out.copy.raised = None
    /\ TheValue(bench.out.copy.value).success

\* the text of a cell of a sheet, "" for an empty cell
TextAt(sheet, row, column) ==
    IF <<row, column>> \in DOMAIN sheet THEN sheet[<<row, column>>] ELSE ""

\* C24: on a successful block copy the target block has the rows and the
\* columns of the source block, every cell (i, j) of the target block holds
\* the value of cell (i, j) of the source block, no cell outside the target
\* block is written, and cells_copied is rows x columns of the source block
C24_CopyKeepsShapeAndValues ==
    CopySucceeded =>
        LET result == TheValue(bench.out.copy.value)
            source == result.source_range
            target == result.target_range
        IN  /\ target.rows = source.rows
            /\ target.columns = source.columns
            /\ \A i \in 1..target.rows, j \in 1..target.columns :
                   TextAt(bench.out.target_sheet,
                          target.row + i - 1, target.column + j - 1)
                     = TextAt(bench.call.source_sheet,
                              source.row + i - 1, source.column + j - 1)
            /\ \A row \in 1..120, column \in 1..10 :
                   \/ /\ row \in target.row..(target.row + target.rows - 1)
                      /\ column \in target.column..(target.column + target.columns - 1)
                   \/ TextAt(bench.out.target_sheet, row, column)
                        = TextAt(bench.call.target_sheet, row, column)
            /\ result.cells_copied = source.rows * source.columns

\* the copy of a table found from column C into an area found from column B
C24_SixColumnsIntoSeven ==
    /\ CopySucceeded
    /\ TheValue(bench.out.copy.value).source_range.columns = 6
    /\ TheValue(bench.out.copy.value).target_range.columns = 7
    /\ TheValue(bench.out.copy.value).cells_copied = 42


(***************************************************************************)
(* Enumerator prefixes                                                     *)
(***************************************************************************)
\* C25: of two enumerator prefixes at the start of a label, a numeric one
\* followed by a single-letter one or two of the same kind,
\* normalize_field_name removes only the first and keeps the rest
C25_AtMostOnePrefixRemoved ==
    \A first \in EnumeratorPrefixes, second \in EnumeratorPrefixes :
        /\ bench.kind = "returned"
        /\ bench.function = "normalize_field_name"
        /\ bench.call.field_name = first \o second \o PlainLabel
        /\ \/ first = second
           \/ first = <<"1", ".">>
        => bench.out.once = second \o PlainLabel


(***************************************************************************)
(* The fallback after a consolidated session                               *)
(***************************************************************************)
\* C26: whenever the consolidated session opened and
\* consolidated_data_population returned a result, the wrapper does not run
\* the fallback workflow: no operation of the fallback is attempted, so no
\* operation writes the document in both paths
C26_NoFallbackAfterReturnedSession ==
    (trace.opened /\ CdpReturned) =>
        /\ pc # "fallback"
        /\ trace.fallback_runs = 0
        /\ trace.fallback_attempted = <<>>

\* the field population wrote in the session and ran again in the fallback
C26_WrittenInBothPaths ==
    /\ trace.opened
    /\ CdpReturned
    /\ "data_population" \in trace.written
    /\ SucceededIn("data_population")
    /\ trace.fallback_runs = 1
    /\ disk # [disk EXCEPT !.cells = env.cells]


(***************************************************************************)
(* ExcelSessionManager.__exit__                                            *)
(***************************************************************************)
\* C27: when __exit__ has run on an open session, the workbook was closed
\* and the application was quit whatever the save did, the session is
\* marked not open, and __exit__ itself raised nothing
C27_ExitClosesAndQuits ==
    (trace.opened /\ pc = "cdp_return") =>
        /\ trace.exit_calls = 1
        /\ trace.close_calls = 1
        /\ trace.quit_calls = 1
        /\ ~ session._is_open


(***************************************************************************)
(* The counts of the returned result                                       *)
(***************************************************************************)
\* C28: in every result consolidated_data_population returns,
\* operations_completed is the number of sub-results whose success flag is
\* true and lies between 0 and total_operations, total_operations is 1 plus
\* one for an enabled resource setup plus one for an enabled rate card with
\* a margin (the margin the function received), and overall_success is true
\* only if an operation completed and the final save did not fail
C28_CountsOfTheResult ==
    CdpReturned =>
        /\ results.operations_completed =
              Cardinality({key \in {"data_population", "resource_setup", "rate_card"} :
                             SucceededIn(key)})
        /\ 0 <= results.operations_completed
        /\ results.operations_completed <= results.total_operations
        /\ results.total_operations =
              1 + (IF args.enable_resource_setup THEN 1 ELSE 0)
                + (IF args.enable_rate_card /\ CdpMargin # None THEN 1 ELSE 0)
        /\ results.overall_success =>
              /\ results.operations_completed >= 1
              /\ trace.final_save = "saved"

\* a returned result of three operations of which one succeeded, and one in
\* which the final save failed
C28_Witness ==
    /\ CdpReturned
    /\ results.total_operations = 3
    /\ results.operations_completed = 1
    /\ results.resource_setup # None
    /\ ~ SucceededIn("resource_setup")
    /\ results.overall_success


(***************************************************************************)
(* Worksheet handles and the session that produced them                    *)
(***************************************************************************)
\* C29: on a manager that is not open, get_worksheet, save and get_workbook
\* raise ExcelSessionError, and a worksheet get_worksheet returns is a sheet
\* of the workbook that is open now, never one cached from a closed one
C29_HandlesDoNotOutliveTheSession ==
    /\ (/\ bench.last.call \in {"get_worksheet", "save", "get_workbook"}
        /\ ~ bench._is_open)
          => bench.last.raised
    /\ (bench.last.call = "get_worksheet" /\ ~ bench.last.raised)
          => bench.last.workbook = bench.workbook

\* a worksheet handed out in the second session
C29_SecondSessionHandsOutASheet ==
    /\ bench.opens = 2
    /\ bench._is_open
    /\ bench.last.call = "get_worksheet"
    /\ ~ bench.last.raised


(***************************************************************************)
(* The two rate card functions                                             *)
(***************************************************************************)
\* C30: for the same columns Q and O and the same margin, the file-based
\* perform_rate_card_calculation and the in-session
\* calculate_rate_card_in_worksheet report the same success flag and the
\* same counts and leave the same cells in column O
C30_FileBasedEqualsInSession ==
    (bench.kind = "returned" /\ bench.function = "calculate_rate_card_in_worksheet") =>
        LET file_based == bench.out.file_based
            in_session == bench.out.in_session
        IN  /\ file_based.results.success = in_session.results.success
            /\ file_based.results.standard_rates_found
                 = in_session.results.standard_rates_found
            /\ file_based.results.successful_calculations
                 = in_session.results.successful_calculations
            /\ file_based.results.rates_written = in_session.results.rates_written
            /\ file_based.column_o = in_session.column_o

====
